---- MODULE Spec2Model ----
(***************************************************************************)
(* Model of the jailer: main (src/jailer/src/main.rs) and the jail setup   *)
(* pipeline Env::run (src/jailer/src/env.rs).  Each step of the pipeline   *)
(* is one action; the two processes after clone(CLONE_NEWPID) are          *)
(* "jailer" (the process the invoker started) and "child".                 *)
(***************************************************************************)
EXTENDS Naturals, Integers, Sequences, FiniteSets, TLC

\* ------------------------------------------------------------------ bounds
MaxCgroups == 2
MaxMacvtaps == 2
MaxPid == 12
MaxCpuTime == 5
\* sanitize_process: the highest descriptor number (the table holds MaxFd + 1
\* descriptors), the entries one read of the directory returns, the length of
\* the environment block
MaxFd == 5
DirBatch == 2
MaxEnv == 2
\* Env::new: the number of --cgroup arguments
MaxCgroupArgs == 1
\* parse_resource_limits: the number of --resource-limit arguments
MaxLimitArgs == 2
\* Tap: the number of Tap handles alive at a time
MaxTaps == 2

\* ------------------------------------------------------- program constants
STDIN_FILENO == 0
STDOUT_FILENO == 1
STDERR_FILENO == 2
\* 0o700
FOLDER_PERMISSIONS == 448
PID_FILE_EXTENSION == ".pid"
FOLDER_HIERARCHY == << <<>>, <<"dev">>, <<"dev", "net">>, <<"run">> >>
DEV_NET_TUN == [path |-> <<"dev", "net", "tun">>, major |-> 10, minor |-> 200]
DEV_KVM == [path |-> <<"dev", "kvm">>, major |-> 10, minor |-> 232]
DEV_URANDOM == [path |-> <<"dev", "urandom">>, major |-> 1, minor |-> 9]
\* S_IFCHR | S_IRUSR | S_IWUSR: the permission bits 0o600 of a character node
DevMode == [kind |-> "chr", mode |-> 384]

\* -------------------------------------------------------------- processes
Jailer == "jailer"
Child == "child"
Procs == {Jailer, Child}

\* --------------------------------------------------------- paths and files
\* A path is the sequence of its components; <<>> is "/".
IsPrefix(a, b) == Len(a) <= Len(b) /\ SubSeq(b, 1, Len(a)) = a

\* PathBuf::push / PathBuf::join of one relative component
Push(path, name) == Append(path, name)

\* PathBuf::pop
Pop(path) == IF Len(path) = 0 THEN path ELSE SubSeq(path, 1, Len(path) - 1)

Digit(d) ==
    CASE d = 0 -> "0" [] d = 1 -> "1" [] d = 2 -> "2" [] d = 3 -> "3"
      [] d = 4 -> "4" [] d = 5 -> "5" [] d = 6 -> "6" [] d = 7 -> "7"
      [] d = 8 -> "8" [] d = 9 -> "9"

RECURSIVE ToDecimal(_)
\* format!("{}", pid) of a non-negative integer: ASCII decimal, no padding
ToDecimal(n) == IF n < 10 THEN Digit(n) ELSE ToDecimal(n \div 10) \o Digit(n % 10)

\* The inputs of one run (the command line, after Env::new)
ExecFileName == "firecracker"
ExecFilePath == <<"usr", "bin", ExecFileName>>
ChrootBase == <<"srv", "jailer">>
InstanceId == "vm0"
MacvtapName(i) == "macvtap" \o ToDecimal(i - 1)

\* Env::new: chroot_dir = canonical chroot base / exec file name / id / "root"
NewChrootDir == Push(Push(Push(ChrootBase, ExecFileName), InstanceId), "root")

\* The jailer runs as root: what it creates belongs to root until chown'ed
RootId == [uid |-> 0, gid |-> 0]
Node(kind, uid, gid, mode, data) ==
    [kind |-> kind, uid |-> uid, gid |-> gid, mode |-> mode, data |-> data]
Exists(f, path) == path \in DOMAIN f
Put(f, path, node) == (path :> node) @@ f

\* The host before the jailer starts: the binary, the chroot base, /dev/null
HostFs ==
    (ExecFilePath :> Node("file", RootId.uid, RootId.gid, 493, "ELF"))
    @@ (ChrootBase :> Node("dir", RootId.uid, RootId.gid, 493, ""))
    @@ (<<"dev", "null">> :> Node("chr", RootId.uid, RootId.gid, 438, <<1, 3>>))

\* A jail directory in which someone left <exec>.pid behind
StalePidFs ==
    Put(Put(HostFs, NewChrootDir, Node("dir", RootId.uid, RootId.gid, 493, "")),
        Push(NewChrootDir, ExecFileName \o PID_FILE_EXTENSION),
        Node("file", RootId.uid, RootId.gid, 420, "7"))

\* A jail directory left by an earlier run of the pipeline with the same id
RanBeforeFs(uid, gid) ==
    LET d == NewChrootDir
        dir == Node("dir", uid, gid, FOLDER_PERMISSIONS, "")
        chr(dev) == Node("chr", uid, gid, DevMode.mode, <<dev.major, dev.minor>>)
    IN  (d :> dir)
        @@ (Push(d, ExecFileName) :> Node("file", RootId.uid, RootId.gid, 493, "ELF"))
        @@ ((d \o <<"dev">>) :> dir) @@ ((d \o <<"dev", "net">>) :> dir)
        @@ ((d \o <<"run">>) :> dir)
        @@ ((d \o DEV_NET_TUN.path) :> chr(DEV_NET_TUN))
        @@ ((d \o DEV_KVM.path) :> chr(DEV_KVM))
        @@ ((d \o DEV_URANDOM.path) :> chr(DEV_URANDOM))
        @@ HostFs

\* That jail directory, with folders someone else made in it: /dev by root
\* with mode 0o755, /run by another user with mode 0o777 and a socket in it
ForeignJailFs ==
    LET d == NewChrootDir
    IN  ((d \o <<"dev">>) :> Node("dir", RootId.uid, RootId.gid, 493, ""))
        @@ ((d \o <<"run">>) :> Node("dir", 2001, 2002, 511, ""))
        @@ ((d \o <<"run", "old.sock">>) :> Node("sock", 2001, 2002, 493, ""))
        @@ StalePidFs

\* ------------------------------------------------------------------ state
VARIABLES
    env,        \* the Env struct (the plan) of the pipeline
    fs,         \* the host filesystem: host path -> node, for the paths that exist
    pc,         \* position of each process
    status,     \* exit status of each process (-1: it has not exited)
    root,       \* each process's root directory, as a host path
    stdio,      \* each process's descriptors 0, 1, 2
    fds,        \* each process's other open descriptors
    idx,        \* loop index of the pipeline's current loop
    macvtaps,   \* Env::run's local: the interfaces resolved so far
    child_pid,  \* what clone returned in the parent
    image,      \* what each process exec'ed: program, argv, credentials, stdio
    trace,      \* history: the operations performed, in order
    args,       \* Env::new alone: the command line and the host it is given
    result,     \* Env::new alone: what it returned
    open_fds,   \* sanitize_process alone: the descriptors the process holds
    dir_stream, \* sanitize_process alone: the ReadDir over /proc/self/fd
    environ,    \* sanitize_process alone: the environment block of the process
    san_pc,     \* sanitize_process alone: its position
    limit_args,       \* parse_resource_limits alone: its args
    limit_next,       \* parse_resource_limits alone: index of the next arg
    resource_limits,  \* parse_resource_limits alone: the ResourceLimits
    limit_result,     \* parse_resource_limits alone: what it returned
    tap_ifaces,  \* Tap alone: the kernel's TAP interfaces, by name
    tap_files,   \* Tap alone: the open descriptors of the process
    taps,        \* Tap alone: the live Tap handles
    tap_call,    \* Tap alone: history of the last open_named or drop
    dev_fs,      \* mknod_and_own_dev alone: the filesystem, as fs
    dev_umask,   \* mknod_and_own_dev alone: the umask of the process
    dev_call,    \* mknod_and_own_dev alone: history of the last call
    copy_call,   \* copy_exec_to_chroot alone: history of the call
    cstr_path,     \* to_cstring alone: the bytes of the path it is given
    cstr_result,   \* to_cstring alone: what it returned
    special_file,  \* writeln_special, readln_special alone: the file's content
    special_call   \* writeln_special, readln_special alone: history of the last call

\* The state of the model of Env::new and of the model of sanitize_process
new_vars == <<args, result>>
san_vars == <<open_fds, dir_stream, environ, san_pc>>
lim_vars == <<limit_args, limit_next, resource_limits, limit_result>>
tap_vars == <<tap_ifaces, tap_files, taps, tap_call>>
dev_vars == <<dev_fs, dev_umask, dev_call>>
cstr_vars == <<cstr_path, cstr_result>>
special_vars == <<special_file, special_call>>

vars ==
    <<env, fs, pc, status, root, stdio, fds, idx, macvtaps, child_pid, image, trace,
      new_vars, san_vars, lim_vars, tap_vars, dev_vars, copy_call, cstr_vars, special_vars>>

\* No program image yet: the process still runs the jailer
NoImage ==
    [program |-> <<>>, argv |-> <<>>, uid |-> RootId.uid, gid |-> RootId.gid,
     stdin |-> "", stdout |-> "", stderr |-> ""]

\* An operation a process performed: arg is the loop index or descriptor it
\* is about, for clone the reading of the process CPU clock taken just before
\* it (0: none), path the path it is about (<<>>: none or "/")
Event(p, op, arg, path, ok) ==
    [proc |-> p, op |-> op, arg |-> arg, path |-> path, ok |-> ok]
Log(p, op, arg, path, ok) == trace' = Append(trace, Event(p, op, arg, path, ok))

\* The variables of the models of Env::new and sanitize_process while main runs
NewIdle == args = <<>> /\ result = <<>>
SanIdle == open_fds = {} /\ dir_stream = <<>> /\ environ = <<>> /\ san_pc = "idle"
LimIdle ==
    limit_args = <<>> /\ limit_next = 0 /\ resource_limits = <<>> /\ limit_result = <<>>
TapIdle == tap_ifaces = <<>> /\ tap_files = <<>> /\ taps = {} /\ tap_call = <<>>
DevIdle == dev_fs = <<>> /\ dev_umask = 0 /\ dev_call = <<>>
CopyIdle == copy_call = <<>>
CstrIdle == cstr_path = <<>> /\ cstr_result = <<>>
SpecialIdle == special_file = <<>> /\ special_call = <<>>

Init ==
    /\ env \in [ id : {InstanceId},
                 chroot_dir : {NewChrootDir},
                 exec_file_path : {ExecFilePath},
                 uid : {1001}, gid : {1002},
                 start_time_us : {1000}, start_time_cpu_us : {7},
                 jailer_cpu_time_us : {0},
                 extra_args : {<<"--api-sock", "/run/fc.sock">>},
                 netns : BOOLEAN, daemonize : BOOLEAN, new_pid_ns : BOOLEAN,
                 ncgroups : 0..MaxCgroups,
                 nmacvtaps : 0..MaxMacvtaps,
                 arch : {"x86_64", "aarch64"} ]
    /\ fs \in {HostFs, ForeignJailFs, RanBeforeFs(env.uid, env.gid)}
    /\ pc = [p \in Procs |-> IF p = Jailer THEN "main" ELSE "none"]
    /\ status = [p \in Procs |-> -1]
    /\ root = [p \in Procs |-> <<>>]
    /\ stdio = [p \in Procs |-> [fd \in {STDIN_FILENO, STDOUT_FILENO, STDERR_FILENO} |-> "inherited"]]
    /\ fds = [p \in Procs |-> IF p = Jailer THEN {"inherited"} ELSE {}]
    /\ idx = 1
    /\ macvtaps = <<>>
    /\ child_pid = 0
    /\ image = [p \in Procs |-> NoImage]
    /\ trace = <<>>
    /\ NewIdle /\ SanIdle /\ LimIdle /\ TapIdle /\ DevIdle /\ CopyIdle /\ CstrIdle /\ SpecialIdle

Goto(p, label) == pc' = [pc EXCEPT ![p] = label]

\* A process ends: the descriptors it held are closed by the kernel.
Exit(p, code) ==
    /\ Goto(p, "exited")
    /\ status' = [status EXCEPT ![p] = code]
    /\ fds' = [fds EXCEPT ![p] = {}]

\* A step returned Err (the ? operator) or an unwrap() failed: Env::run is left,
\* nothing of the pipeline runs any more, and the process is about to panic.
Fail(p) == Goto(p, "panic")

\* Mutants of the statement order of Env::run
RunOrder_MacvtapBeforeNetns ==
    <<"copy_exec", "limits", "write_value", "attach_pid", "by_name", "join_netns",
      "open_dev_null", "copy_cache_info", "chroot", "folders", "mknod_tun",
      "mknod_kvm", "mknod_urandom", "macvtap_mknod", "setsid", "dup2", "final">>

RunOrder_FoldersBeforeChroot ==
    <<"copy_exec", "limits", "write_value", "attach_pid", "join_netns", "by_name",
      "open_dev_null", "copy_cache_info", "folders", "chroot", "mknod_tun",
      "mknod_kvm", "mknod_urandom", "macvtap_mknod", "setsid", "dup2", "final">>

RunOrder_ExecBeforeDaemonize ==
    <<"copy_exec", "limits", "write_value", "attach_pid", "join_netns", "by_name",
      "open_dev_null", "copy_cache_info", "chroot", "folders", "mknod_tun",
      "mknod_kvm", "mknod_urandom", "macvtap_mknod", "final", "setsid", "dup2">>

RunOrder_DevNullAfterChroot ==
    <<"copy_exec", "limits", "write_value", "attach_pid", "join_netns", "by_name",
      "copy_cache_info", "chroot", "open_dev_null", "folders", "mknod_tun",
      "mknod_kvm", "mknod_urandom", "macvtap_mknod", "setsid", "dup2", "final">>

\* The statements of Env::run in program order (the position a process is at);
\* "final" is the closing if self.new_pid_ns { .. } else { .. }
RunOrder ==
    <<"copy_exec", "limits", "write_value", "attach_pid", "join_netns", "by_name",
      "open_dev_null", "copy_cache_info", "chroot", "folders", "mknod_tun",
      "mknod_kvm", "mknod_urandom", "macvtap_mknod", "setsid", "dup2", "final">>

\* The statement that follows a statement of Env::run
NextStep(label) ==
    LET i == CHOOSE k \in 1..Len(RunOrder) : RunOrder[k] = label
    IN  IF i < Len(RunOrder) THEN RunOrder[i + 1] ELSE "returned"

\* ------------------------------------------------------------------- main
\* main.rs: sanitize_process() is main's first statement.  The inherited
\* descriptors above 2 are closed, or left open when the enumeration of
\* /proc/self/fd fails or ends early; clean_env_vars returns or panics.
SanitizeProcess ==
    /\ pc[Jailer] = "main"
    /\ \E outcome \in {"closed", "left_open", "panic"} :
          /\ fds' = [fds EXCEPT ![Jailer] = IF outcome = "left_open" THEN @ ELSE {}]
          /\ Log(Jailer, "sanitize_process", 0, <<>>, outcome # "panic")
          /\ IF outcome = "panic" THEN Fail(Jailer) ELSE Goto(Jailer, "parse")
    /\ UNCHANGED <<env, fs, status, root, stdio, idx, macvtaps, child_pid, image, new_vars, san_vars, lim_vars, tap_vars, dev_vars, copy_call, cstr_vars, special_vars>>

\* Mutant: --help and --version print and main goes on
ParseCmdline_HelpGoesOn ==
    /\ pc[Jailer] = "parse"
    /\ \E parsed, help, version \in BOOLEAN :
          IF ~parsed
          THEN Log(Jailer, "parse_error", 0, <<>>, FALSE) /\ Exit(Jailer, 1)
          ELSE /\ Log(Jailer, IF help THEN "help" ELSE IF version THEN "version" ELSE "parse",
                      0, <<>>, TRUE)
               /\ Goto(Jailer, "new")
               /\ UNCHANGED <<status, fds>>
    /\ UNCHANGED <<env, fs, root, stdio, idx, macvtaps, child_pid, image, new_vars, san_vars, lim_vars, tap_vars, dev_vars, copy_call, cstr_vars, special_vars>>

\* main.rs: parse_from_cmdline; a parse error exits 1, --help and --version exit 0
ParseCmdline ==
    /\ pc[Jailer] = "parse"
    /\ \E parsed, help, version \in BOOLEAN :
          IF ~parsed
          THEN Log(Jailer, "parse_error", 0, <<>>, FALSE) /\ Exit(Jailer, 1)
          ELSE IF help
          THEN Log(Jailer, "help", 0, <<>>, TRUE) /\ Exit(Jailer, 0)
          ELSE IF version
          THEN Log(Jailer, "version", 0, <<>>, TRUE) /\ Exit(Jailer, 0)
          ELSE Log(Jailer, "parse", 0, <<>>, TRUE) /\ Goto(Jailer, "new")
                 /\ UNCHANGED <<status, fds>>
    /\ UNCHANGED <<env, fs, root, stdio, idx, macvtaps, child_pid, image, new_vars, san_vars, lim_vars, tap_vars, dev_vars, copy_call, cstr_vars, special_vars>>

\* main.rs: Env::new(..) either yields the plan or an error main panics with
EnvNew ==
    /\ pc[Jailer] = "new"
    /\ \E ok \in BOOLEAN :
          /\ Log(Jailer, "Env::new", 0, <<>>, ok)
          /\ IF ok THEN Goto(Jailer, "create_dir_all") ELSE Fail(Jailer)
    /\ UNCHANGED <<env, fs, status, root, stdio, fds, idx, macvtaps, child_pid, image, new_vars, san_vars, lim_vars, tap_vars, dev_vars, copy_call, cstr_vars, special_vars>>

\* main.rs: fs::create_dir_all(env.chroot_dir()) before env.run()
CreateChrootDir ==
    /\ pc[Jailer] = "create_dir_all"
    /\ \E ok \in BOOLEAN :
          /\ Log(Jailer, "create_dir_all", 0, <<>>, ok)
          /\ IF ok
             THEN /\ fs' = IF Exists(fs, env.chroot_dir) THEN fs
                           ELSE Put(fs, env.chroot_dir,
                                    Node("dir", RootId.uid, RootId.gid, 493, ""))
                  /\ Goto(Jailer, RunOrder[1])
             ELSE fs' = fs /\ Fail(Jailer)
    /\ UNCHANGED <<env, status, root, stdio, fds, idx, macvtaps, child_pid, image, new_vars, san_vars, lim_vars, tap_vars, dev_vars, copy_call, cstr_vars, special_vars>>

\* Mutant: main swallows the error and returns normally
MainPanic_ExitsZero(p) ==
    /\ pc[p] = "panic"
    /\ Exit(p, 0)
    /\ Log(p, "panic", 0, <<>>, FALSE)
    /\ UNCHANGED <<env, fs, root, stdio, idx, macvtaps, child_pid, image, new_vars, san_vars, lim_vars, tap_vars, dev_vars, copy_call, cstr_vars, special_vars>>

\* main.rs: .unwrap_or_else(|err| panic!("Jailer error: {}", err)); a panicking
\* process ends with status 101
MainPanic(p) ==
    /\ pc[p] = "panic"
    /\ Exit(p, 101)
    /\ Log(p, "panic", 0, <<>>, FALSE)
    /\ UNCHANGED <<env, fs, root, stdio, idx, macvtaps, child_pid, image, new_vars, san_vars, lim_vars, tap_vars, dev_vars, copy_call, cstr_vars, special_vars>>

\* ---------------------------------------------------------------- Env::run
\* Path::file_name of the exec file
FileName(path) == path[Len(path)]

\* Env::run: chroot_exec_file = PathBuf::from("/").join(&exec_file_name)
ChrootExecFile == Push(<<>>, FileName(env.exec_file_path))

\* The host path a process reaches under its root
Resolve(p, path) == root[p] \o path

\* std::fs::copy(from, to): open the source; open the destination with
\* create and truncate and give it the permission bits of the source; copy
\* the bytes the source holds by then.  outcome names the first call that
\* fails ("ok": none).  A destination that is the source itself is truncated
\* before it is read.
FsCopy(f, from, to, outcome) ==
    LET src == f[from]
        opened == Put(f, to, IF Exists(f, to)
                             THEN [f[to] EXCEPT !.mode = src.mode, !.data = ""]
                             ELSE Node("file", RootId.uid, RootId.gid, src.mode, ""))
        copied == [opened EXCEPT ![to].data = opened[from].data]
    IN  IF outcome = "open_from" \/ ~Exists(f, from) \/ ~Exists(f, Pop(to))
        THEN [ok |-> FALSE, fs |-> f]
        ELSE IF outcome = "write" THEN [ok |-> FALSE, fs |-> opened]
        ELSE [ok |-> TRUE, fs |-> copied]

\* Result<OsString> of copy_exec_to_chroot
CopyOk(name) == [ok |-> TRUE, name |-> name, err |-> ""]
CopyErr(err) == [ok |-> FALSE, name |-> "", err |-> err]

\* Env::copy_exec_to_chroot(&mut self): file_name, push, fs::copy with ?, pop
CopyExecToChrootIn(e, f, outcome) ==
    LET pushed == Push(e.chroot_dir, FileName(e.exec_file_path))
        copy == FsCopy(f, e.exec_file_path, pushed, outcome)
    IN  IF Len(e.exec_file_path) = 0
        THEN [result |-> CopyErr("ExtractFileName"), env |-> e, fs |-> f]
        ELSE IF ~copy.ok
        THEN [result |-> CopyErr("Copy"),
              env |-> [e EXCEPT !.chroot_dir = pushed], fs |-> copy.fs]
        ELSE [result |-> CopyOk(FileName(e.exec_file_path)),
              env |-> [e EXCEPT !.chroot_dir = Pop(pushed)], fs |-> copy.fs]

\* Env::run: let exec_file_name = self.copy_exec_to_chroot()?;
CopyExecToChroot ==
    /\ pc[Jailer] = "copy_exec"
    /\ \E outcome \in {"ok", "open_from", "write"} :
          LET done == CopyExecToChrootIn(env, fs, outcome)
          IN  /\ Log(Jailer, "copy_exec", 0, <<>>, done.result.ok)
              /\ fs' = done.fs
              /\ env' = done.env
              /\ IF done.result.ok THEN Goto(Jailer, NextStep("copy_exec")) ELSE Fail(Jailer)
    /\ UNCHANGED <<status, root, stdio, fds, idx, macvtaps, child_pid, image, new_vars, san_vars, lim_vars, tap_vars, dev_vars, copy_call, cstr_vars, special_vars>>

\* Env::run: self.resource_limits.install()?
InstallLimits ==
    /\ pc[Jailer] = "limits"
    /\ \E ok \in BOOLEAN :
          /\ Log(Jailer, "limits", 0, <<>>, ok)
          /\ IF ok THEN Goto(Jailer, NextStep("limits")) ELSE Fail(Jailer)
    /\ idx' = 1
    /\ UNCHANGED <<env, fs, status, root, stdio, fds, macvtaps, child_pid, image, new_vars, san_vars, lim_vars, tap_vars, dev_vars, copy_call, cstr_vars, special_vars>>

\* Mutant: one pass over the cgroups, each written and attached in turn
WriteValue_SinglePass ==
    /\ pc[Jailer] = "write_value"
    /\ IF idx <= env.ncgroups
       THEN /\ trace' = trace \o <<Event(Jailer, "write_value", idx, <<>>, TRUE),
                                   Event(Jailer, "attach_pid", idx, <<>>, TRUE)>>
            /\ idx' = idx + 1 /\ UNCHANGED pc
       ELSE idx' = env.ncgroups + 1 /\ Goto(Jailer, "attach_pid") /\ UNCHANGED trace
    /\ UNCHANGED <<env, fs, status, root, stdio, fds, macvtaps, child_pid, image, new_vars, san_vars, lim_vars, tap_vars, dev_vars, copy_call, cstr_vars, special_vars>>

\* Env::run: for cgroup in &self.cgroups { cgroup.write_value().unwrap(); }
WriteValue ==
    /\ pc[Jailer] = "write_value"
    /\ IF idx <= env.ncgroups
       THEN \E ok \in BOOLEAN :
               /\ Log(Jailer, "write_value", idx, <<>>, ok)
               /\ IF ok THEN idx' = idx + 1 /\ UNCHANGED pc
                        ELSE idx' = idx /\ Fail(Jailer)
       ELSE idx' = 1 /\ Goto(Jailer, NextStep("write_value")) /\ UNCHANGED trace
    /\ UNCHANGED <<env, fs, status, root, stdio, fds, macvtaps, child_pid, image, new_vars, san_vars, lim_vars, tap_vars, dev_vars, copy_call, cstr_vars, special_vars>>

\* Env::run: for cgroup in &self.cgroups { cgroup.attach_pid().unwrap(); }
AttachPid ==
    /\ pc[Jailer] = "attach_pid"
    /\ IF idx <= env.ncgroups
       THEN \E ok \in BOOLEAN :
               /\ Log(Jailer, "attach_pid", idx, <<>>, ok)
               /\ IF ok THEN idx' = idx + 1 /\ UNCHANGED pc
                        ELSE idx' = idx /\ Fail(Jailer)
       ELSE idx' = 1 /\ Goto(Jailer, NextStep("attach_pid")) /\ UNCHANGED trace
    /\ UNCHANGED <<env, fs, status, root, stdio, fds, macvtaps, child_pid, image, new_vars, san_vars, lim_vars, tap_vars, dev_vars, copy_call, cstr_vars, special_vars>>

\* Mutant: /sys is unmounted before the propagation of / is slaved
JoinNetnsSteps_SysBeforeSlave ==
    <<"netns_open", "setns", "netns_close", "unshare", "umount2_sys",
      "mount_slave", "mount_sysfs">>

\* Mutant: the descriptor of the netns file is never closed
JoinNetnsFds_NeverClosed(open, failAt) ==
    IF failAt = 1 THEN open ELSE open \cup {"netns"}

\* Env::join_netns: the calls it makes, in program order: File::open(path),
\* setns(fd, CLONE_NEWNET), close(fd), unshare(CLONE_NEWNS), mount("", "/",
\* "none", MS_SLAVE | MS_REC), umount2("/sys", MNT_DETACH), mount(NULL,
\* "/sys", "sysfs", 0)
JoinNetnsSteps ==
    <<"netns_open", "setns", "netns_close", "unshare", "mount_slave",
      "umount2_sys", "mount_sysfs">>

\* The events of a join_netns whose step failAt fails (0: none does): every
\* step up to the failing one is performed, none after it.
JoinNetnsEvents(failAt) ==
    LET last == IF failAt = 0 THEN Len(JoinNetnsSteps) ELSE failAt
    IN  [i \in 1..last |-> Event(Jailer, JoinNetnsSteps[i], 0, <<>>, i # failAt)]

\* The descriptor of the netns file after join_netns: File::open(..).into_raw_fd()
\* is closed only by the libc::close that follows a successful setns.
JoinNetnsFds(open, failAt) ==
    IF failAt = 1 THEN open
    ELSE IF failAt = 2 THEN open \cup {"netns"}
    ELSE open

\* Env::run: if let Some(ref path) = self.netns { Env::join_netns(path)?; }
JoinNetns ==
    /\ pc[Jailer] = "join_netns"
    /\ IF env.netns
       THEN \E failAt \in 0..Len(JoinNetnsSteps) :
               /\ trace' = trace \o JoinNetnsEvents(failAt)
               /\ fds' = [fds EXCEPT ![Jailer] = JoinNetnsFds(@, failAt)]
               /\ IF failAt = 0 THEN Goto(Jailer, NextStep("join_netns")) ELSE Fail(Jailer)
       ELSE Goto(Jailer, NextStep("join_netns")) /\ UNCHANGED <<trace, fds>>
    /\ idx' = 1
    /\ UNCHANGED <<env, fs, status, root, stdio, macvtaps, child_pid, image, new_vars, san_vars, lim_vars, tap_vars, dev_vars, copy_call, cstr_vars, special_vars>>

\* Env::run: for macvtap in &self.macvtaps { macvtaps.push(MacVTap::by_name(..)?) }
ResolveMacvtaps ==
    /\ pc[Jailer] = "by_name"
    /\ IF idx <= env.nmacvtaps
       THEN \E ok \in BOOLEAN :
               /\ Log(Jailer, "by_name", idx, <<>>, ok)
               /\ IF ok
                  THEN /\ macvtaps' = Append(macvtaps, [if_name |-> MacvtapName(idx)])
                       /\ idx' = idx + 1 /\ UNCHANGED pc
                  ELSE UNCHANGED <<macvtaps, idx>> /\ Fail(Jailer)
       ELSE idx' = 1 /\ Goto(Jailer, NextStep("by_name")) /\ UNCHANGED <<trace, macvtaps>>
    /\ UNCHANGED <<env, fs, status, root, stdio, fds, child_pid, image, new_vars, san_vars, lim_vars, tap_vars, dev_vars, copy_call, cstr_vars, special_vars>>

\* Env::run: let dev_null = if self.daemonize { Some(File::open("/dev/null")?) }
\* else { None }
OpenDevNull ==
    /\ pc[Jailer] = "open_dev_null"
    /\ IF env.daemonize
       THEN \E ok \in BOOLEAN :
               LET opened == ok /\ Exists(fs, Resolve(Jailer, <<"dev", "null">>))
               IN  /\ Log(Jailer, "open_dev_null", 0, Resolve(Jailer, <<"dev", "null">>), opened)
                   /\ IF opened
                      THEN /\ fds' = [fds EXCEPT ![Jailer] = @ \cup {"dev_null"}]
                           /\ Goto(Jailer, NextStep("open_dev_null"))
                      ELSE UNCHANGED fds /\ Fail(Jailer)
       ELSE Goto(Jailer, NextStep("open_dev_null")) /\ UNCHANGED <<trace, fds>>
    /\ UNCHANGED <<env, fs, status, root, stdio, idx, macvtaps, child_pid, image, new_vars, san_vars, lim_vars, tap_vars, dev_vars, copy_call, cstr_vars, special_vars>>

\* Env::run, aarch64 only: self.copy_cache_info()?; self.copy_midr_el1_info()?;
\* both write below <chroot_dir>/sys; failAt names the call that fails (0: none)
CopyCpuInfo ==
    /\ pc[Jailer] = "copy_cache_info"
    /\ IF env.arch = "aarch64"
       THEN \E failAt \in 0..2 :
               /\ trace' = trace \o
                     [i \in 1..(IF failAt = 0 THEN 2 ELSE failAt) |->
                        Event(Jailer, <<"copy_cache_info", "copy_midr_el1_info">>[i],
                              0, <<>>, i # failAt)]
               /\ fs' = IF failAt = 1 THEN fs
                        ELSE Put(fs, env.chroot_dir \o <<"sys">>,
                                 Node("dir", RootId.uid, RootId.gid, 493, ""))
               /\ IF failAt = 0 THEN Goto(Jailer, NextStep("copy_cache_info")) ELSE Fail(Jailer)
       ELSE Goto(Jailer, NextStep("copy_cache_info")) /\ UNCHANGED <<trace, fs>>
    /\ UNCHANGED <<env, status, root, stdio, fds, idx, macvtaps, child_pid, image, new_vars, san_vars, lim_vars, tap_vars, dev_vars, copy_call, cstr_vars, special_vars>>

\* crate::chroot::chroot(dir): the process's root becomes dir, and every path
\* it uses afterwards is resolved below it
ChrootTo(dir) == dir

\* Env::run: chroot(self.chroot_dir())?
Chroot ==
    /\ pc[Jailer] = "chroot"
    /\ \E ok \in BOOLEAN :
          /\ Log(Jailer, "chroot", 0, <<>>, ok)
          /\ IF ok
             THEN root' = [root EXCEPT ![Jailer] = ChrootTo(env.chroot_dir)]
                  /\ Goto(Jailer, NextStep("chroot"))
             ELSE UNCHANGED root /\ Fail(Jailer)
    /\ idx' = 1
    /\ UNCHANGED <<env, fs, status, stdio, fds, macvtaps, child_pid, image, new_vars, san_vars, lim_vars, tap_vars, dev_vars, copy_call, cstr_vars, special_vars>>

\* fs::create_dir_all(path) below a root: every missing directory on the way
\* is created (by root, mode 0o755)
CreateDirAll(f, base, path) ==
    LET missing == {base \o SubSeq(path, 1, k) : k \in 0..Len(path)} \ DOMAIN f
    IN  [q \in missing |-> Node("dir", RootId.uid, RootId.gid, 493, "")] @@ f

\* The step of setup_jailed_folder that fails: the one the environment makes
\* fail, or create_dir_all when the path exists and is no directory
FolderOutcome(f, host, choice) ==
    IF Exists(f, host) /\ f[host].kind # "dir" THEN "create_dir_all" ELSE choice

\* Mutant: the permissions of the folder are left as create_dir_all found or
\* made them
SetupJailedFolder_NoChmod(f, base, folder, outcome) ==
    LET host == base \o folder
        made == CreateDirAll(f, base, folder)
        owned == [made EXCEPT ![host].uid = env.uid, ![host].gid = env.gid]
    IN  CASE outcome = "create_dir_all" -> f
          [] outcome = "set_permissions" -> made
          [] outcome = "chown" -> made
          [] OTHER -> owned

\* Env::setup_jailed_folder: create_dir_all, set_permissions(0o700),
\* chown(uid, gid); the first failing call ends it
SetupJailedFolder(f, base, folder, outcome) ==
    LET host == base \o folder
        made == CreateDirAll(f, base, folder)
        moded == [made EXCEPT ![host].mode = FOLDER_PERMISSIONS]
        owned == [moded EXCEPT ![host].uid = env.uid, ![host].gid = env.gid]
    IN  CASE outcome = "create_dir_all" -> f
          [] outcome = "set_permissions" -> made
          [] outcome = "chown" -> moded
          [] OTHER -> owned

\* Env::run: FOLDER_HIERARCHY.iter().try_for_each(|f| self.setup_jailed_folder(*f))?
SetupJailedFolders ==
    /\ pc[Jailer] = "folders"
    /\ IF idx <= Len(FOLDER_HIERARCHY)
       THEN \E choice \in {"ok", "create_dir_all", "set_permissions", "chown"} :
               LET folder == FOLDER_HIERARCHY[idx]
                   outcome == FolderOutcome(fs, Resolve(Jailer, folder), choice)
               IN  /\ Log(Jailer, "setup_jailed_folder", idx, folder, outcome = "ok")
                   /\ fs' = SetupJailedFolder(fs, root[Jailer], folder, outcome)
                   /\ IF outcome = "ok" THEN idx' = idx + 1 /\ UNCHANGED pc
                                        ELSE idx' = idx /\ Fail(Jailer)
       ELSE idx' = 1 /\ Goto(Jailer, NextStep("folders")) /\ UNCHANGED <<trace, fs>>
    /\ UNCHANGED <<env, status, root, stdio, fds, macvtaps, child_pid, image, new_vars, san_vars, lim_vars, tap_vars, dev_vars, copy_call, cstr_vars, special_vars>>

\* Mutant: mknod replaces a node that exists
MknodOutcome_Replaces(f, host, choice) ==
    IF ~Exists(f, Pop(host)) THEN "mknod" ELSE choice

\* The call of mknod_and_own_dev that fails: the one the environment makes
\* fail, or mknod when the node exists (EEXIST) or its directory is missing
MknodOutcome(f, host, choice) ==
    IF Exists(f, host) \/ ~Exists(f, Pop(host)) THEN "mknod" ELSE choice

\* Env::mknod_and_own_dev: mknod(path, S_IFCHR | S_IRUSR | S_IWUSR,
\* makedev(major, minor)), then chown(path, uid, gid)
MknodAndOwnDev(f, host, major, minor, outcome) ==
    LET made == Put(f, host, Node(DevMode.kind, RootId.uid, RootId.gid, DevMode.mode,
                                  <<major, minor>>))
        owned == [made EXCEPT ![host].uid = env.uid, ![host].gid = env.gid]
    IN  CASE outcome = "mknod" -> f
          [] outcome = "chown" -> made
          [] OTHER -> owned

\* Mutant: the warning goes to the standard error stream
Warning_Eprintln(dev) ==
    <<Event(Jailer, "print", STDERR_FILENO, dev.path, TRUE),
      Event(Jailer, "print", STDERR_FILENO, <<>>, TRUE)>>

\* Env::run, the closure given to map_err: println!("Warning! Could not create
\* /dev/urandom device inside jailer: {}.", err); println!("MMDS version 2 will
\* not be available to use."); println! writes its line to descriptor 1
Warning(dev) ==
    <<Event(Jailer, "print", STDOUT_FILENO, dev.path, TRUE),
      Event(Jailer, "print", STDOUT_FILENO, <<>>, TRUE)>>

\* One device of Env::run.  fatal: the call is followed by ? (the error is
\* returned); otherwise its result is dropped (let _ = ..map_err(print a
\* warning)) and the run continues whatever it is.
MknodStep(here, dev, fatal) ==
    /\ pc[Jailer] = here
    /\ \E choice \in {"ok", "mknod", "chown"} :
          LET host == Resolve(Jailer, dev.path)
              outcome == MknodOutcome(fs, host, choice)
          IN  /\ trace' = Append(trace, Event(Jailer, here, 0, dev.path, outcome = "ok"))
                           \o (IF outcome # "ok" /\ ~fatal THEN Warning(dev) ELSE <<>>)
              /\ fs' = MknodAndOwnDev(fs, host, dev.major, dev.minor, outcome)
              /\ IF outcome = "ok" \/ ~fatal THEN Goto(Jailer, NextStep(here))
                                             ELSE Fail(Jailer)
    /\ UNCHANGED <<env, status, root, stdio, fds, idx, macvtaps, child_pid, image, new_vars, san_vars, lim_vars, tap_vars, dev_vars, copy_call, cstr_vars, special_vars>>

\* Env::run: self.mknod_and_own_dev(DEV_NET_TUN_WITH_NUL, ..)?
MknodTun == MknodStep("mknod_tun", DEV_NET_TUN, TRUE)

\* Mutant: the error of the /dev/kvm step is dropped like that of /dev/urandom
MknodKvm_BestEffort == MknodStep("mknod_kvm", DEV_KVM, FALSE)

\* Env::run: self.mknod_and_own_dev(DEV_KVM_WITH_NUL, ..)?
MknodKvm == MknodStep("mknod_kvm", DEV_KVM, TRUE)

\* Mutant: the error of the /dev/urandom step is returned
MknodUrandom_Fatal == MknodStep("mknod_urandom", DEV_URANDOM, TRUE)

\* Env::run: let _ = self.mknod_and_own_dev(DEV_URANDOM_WITH_NUL, ..).map_err(..)
MknodUrandom == MknodStep("mknod_urandom", DEV_URANDOM, FALSE)

\* MacVTap::mknod(path, uid, gid) of a resolved interface: a character node
\* with the interface's host device numbers, owned by (uid, gid)
MacvtapMknodNode(i) == Node(DevMode.kind, env.uid, env.gid, DevMode.mode, <<240, i>>)

\* Env::run: for iface in &macvtaps { iface.mknod(&Path::new("/dev/net")
\*   .join(&iface.if_name), uid, gid)? }
MacvtapMknod ==
    /\ pc[Jailer] = "macvtap_mknod"
    /\ IF idx <= Len(macvtaps)
       THEN \E choice \in {"ok", "mknod"} :
               LET path == Push(<<"dev", "net">>, macvtaps[idx].if_name)
                   host == Resolve(Jailer, path)
                   outcome == MknodOutcome(fs, host, choice)
               IN  /\ Log(Jailer, "macvtap_mknod", idx, path, outcome = "ok")
                   /\ IF outcome = "ok"
                      THEN /\ fs' = Put(fs, host, MacvtapMknodNode(idx))
                           /\ idx' = idx + 1 /\ UNCHANGED pc
                      ELSE UNCHANGED <<fs, idx>> /\ Fail(Jailer)
       ELSE idx' = 1 /\ Goto(Jailer, NextStep("macvtap_mknod")) /\ UNCHANGED <<trace, fs>>
    /\ UNCHANGED <<env, status, root, stdio, fds, macvtaps, child_pid, image, new_vars, san_vars, lim_vars, tap_vars, dev_vars, copy_call, cstr_vars, special_vars>>

\* Mutant: the third call repeats the target of the second
Dup2Targets_StdoutTwice == <<STDIN_FILENO, STDOUT_FILENO, STDOUT_FILENO>>

\* Env::run: the three dup2 calls of the daemonization, in program order
Dup2Targets == <<STDIN_FILENO, STDOUT_FILENO, STDERR_FILENO>>

\* Env::run: if let Some(dev_null) = dev_null { setsid()?; .. }; the File is
\* moved into the block and dropped (closed) when the block is left
Setsid ==
    /\ pc[Jailer] = "setsid"
    /\ IF "dev_null" \in fds[Jailer]
       THEN \E ok \in BOOLEAN :
               /\ Log(Jailer, "setsid", 0, <<>>, ok)
               /\ IF ok
                  THEN Goto(Jailer, NextStep("setsid")) /\ UNCHANGED fds
                  ELSE /\ fds' = [fds EXCEPT ![Jailer] = @ \ {"dev_null"}]
                       /\ Fail(Jailer)
       ELSE Goto(Jailer, NextStep("dup2")) /\ UNCHANGED <<trace, fds>>
    /\ idx' = 1
    /\ UNCHANGED <<env, fs, status, root, stdio, macvtaps, child_pid, image, new_vars, san_vars, lim_vars, tap_vars, dev_vars, copy_call, cstr_vars, special_vars>>

\* Env::run: dup2(dev_null, STDIN_FILENO)?; dup2(dev_null, STDOUT_FILENO)?;
\* dup2(dev_null, STDERR_FILENO)?; then the block ends and dev_null is dropped
Dup2 ==
    /\ pc[Jailer] = "dup2"
    /\ \E ok \in BOOLEAN :
          /\ Log(Jailer, "dup2", Dup2Targets[idx], <<>>, ok)
          /\ IF ok
             THEN /\ stdio' = [stdio EXCEPT ![Jailer][Dup2Targets[idx]] = "dev_null"]
                  /\ IF idx < Len(Dup2Targets)
                     THEN idx' = idx + 1 /\ UNCHANGED <<pc, fds>>
                     ELSE /\ idx' = 1
                          /\ fds' = [fds EXCEPT ![Jailer] = @ \ {"dev_null"}]
                          /\ Goto(Jailer, NextStep("dup2"))
             ELSE /\ fds' = [fds EXCEPT ![Jailer] = @ \ {"dev_null"}]
                  /\ UNCHANGED <<stdio, idx>>
                  /\ Fail(Jailer)
    /\ UNCHANGED <<env, fs, status, root, macvtaps, child_pid, image, new_vars, san_vars, lim_vars, tap_vars, dev_vars, copy_call, cstr_vars, special_vars>>

\* Env::exec_into_new_pid_ns: get_time_us(ProcessCpu) - self.start_time_cpu_us;
\* the process CPU clock never runs backwards
JailerCpuTime(now, start) == now - start

\* Mutant: the extra arguments are put in front of the jailer's own
ExecArgs_ExtraFirst(e) ==
    e.extra_args \o
    <<"--id", e.id,
      "--start-time-us", ToDecimal(e.start_time_us),
      "--start-time-cpu-us", ToDecimal(e.start_time_cpu_us),
      "--parent-cpu-time-us", ToDecimal(e.jailer_cpu_time_us)>>

\* Env::exec_command: the argument vector, in the order of the .args() calls
ExecArgs(e) ==
    <<"--id", e.id,
      "--start-time-us", ToDecimal(e.start_time_us),
      "--start-time-cpu-us", ToDecimal(e.start_time_cpu_us),
      "--parent-cpu-time-us", ToDecimal(e.jailer_cpu_time_us)>>
    \o e.extra_args

\* Env::exec_into_new_pid_ns, pid == 0: self.start_time_cpu_us = 0 in the
\* child's copy of the plan
ChildEnv(e) == [e EXCEPT !.start_time_cpu_us = 0]

\* Env::exec_command: Command::new(chroot_exec_file)...exec() replaces the
\* process image, or returns the error, which the caller wraps in Error::Exec
ExecCommand(p, e) ==
    \E ok \in BOOLEAN :
       LET target == Resolve(p, ChrootExecFile)
           done == ok /\ Exists(fs, target) /\ fs[target].kind = "file"
       IN  /\ Log(p, "exec", 0, ChrootExecFile, done)
           /\ IF done
              THEN /\ Goto(p, "execed")
                   /\ image' = [image EXCEPT ![p] =
                         [program |-> ChrootExecFile, argv |-> ExecArgs(e),
                          uid |-> e.uid, gid |-> e.gid,
                          stdin |-> stdio[p][STDIN_FILENO],
                          stdout |-> stdio[p][STDOUT_FILENO],
                          stderr |-> stdio[p][STDERR_FILENO]]]
              ELSE Fail(p) /\ UNCHANGED image

\* Env::run: Err(Error::Exec(self.exec_command(chroot_exec_file))) without
\* new_pid_ns
ExecDirect ==
    /\ pc[Jailer] = "final"
    /\ ~env.new_pid_ns
    /\ ExecCommand(Jailer, env)
    /\ UNCHANGED <<env, fs, status, root, stdio, fds, idx, macvtaps, child_pid, new_vars, san_vars, lim_vars, tap_vars, dev_vars, copy_call, cstr_vars, special_vars>>

\* Env::exec_into_new_pid_ns: clone(NULL, CLONE_NEWPID)?; the child is a copy
\* of the parent (root, descriptors) and clone returns its pid to the parent
ExecIntoNewPidNs ==
    /\ pc[Jailer] = "final"
    /\ env.new_pid_ns
    /\ \E ok \in BOOLEAN, pid \in {1, MaxPid - 1, MaxPid}, spent \in {0, MaxCpuTime} :
          /\ env' = [env EXCEPT !.jailer_cpu_time_us =
                        JailerCpuTime(env.start_time_cpu_us + spent, env.start_time_cpu_us)]
          /\ Log(Jailer, "clone", env.start_time_cpu_us + spent, <<>>, ok)
          /\ IF ok
             THEN /\ pc' = [pc EXCEPT ![Jailer] = "save_pid", ![Child] = "child_exec"]
                  /\ root' = [root EXCEPT ![Child] = root[Jailer]]
                  /\ stdio' = [stdio EXCEPT ![Child] = stdio[Jailer]]
                  /\ fds' = [fds EXCEPT ![Child] = fds[Jailer]]
                  /\ child_pid' = pid
             ELSE Fail(Jailer) /\ UNCHANGED <<root, stdio, fds, child_pid>>
    /\ UNCHANGED <<fs, status, idx, macvtaps, image, new_vars, san_vars, lim_vars, tap_vars, dev_vars, copy_call, cstr_vars, special_vars>>

\* Env::exec_into_new_pid_ns, pid == 0: Err(Error::Exec(self.exec_command(..)))
ChildExec ==
    /\ pc[Child] = "child_exec"
    /\ ExecCommand(Child, ChildEnv(env))
    /\ UNCHANGED <<env, fs, status, root, stdio, fds, idx, macvtaps, child_pid, new_vars, san_vars, lim_vars, tap_vars, dev_vars, copy_call, cstr_vars, special_vars>>

\* Mutant: the PID file is put below /run
PidFilePath_UnderRun(chroot_exec_file) ==
    <<"run">> \o [chroot_exec_file EXCEPT ![Len(chroot_exec_file)] = @ \o PID_FILE_EXTENSION]

\* Env::save_exec_file_pid: format!("{}{}", chroot_exec_file_str, PID_FILE_EXTENSION)
PidFilePath(chroot_exec_file) ==
    [chroot_exec_file EXCEPT ![Len(chroot_exec_file)] = @ \o PID_FILE_EXTENSION]

\* Mutant: the file is opened without create_new
SavePidOutcome_NoCreateNew(f, host, choice) ==
    IF ~Exists(f, Pop(host)) THEN "open" ELSE choice

\* The call of save_exec_file_pid that fails: the one the environment makes
\* fail, or the open when the file exists (create_new) or has no directory
SavePidOutcome(f, host, choice) ==
    IF Exists(f, host) \/ ~Exists(f, Pop(host)) THEN "open" ELSE choice

\* Env::save_exec_file_pid: OpenOptions::new().write(true).create_new(true)
\* .open(path), then write!(pid_file, "{}", pid)
SaveExecFilePidFs(f, host, pid, outcome) ==
    LET created == Put(f, host, Node("file", RootId.uid, RootId.gid, 420, ""))
    IN  CASE outcome = "open" -> f
          [] outcome = "write" -> created
          [] OTHER -> [created EXCEPT ![host].data = ToDecimal(pid)]

\* Env::exec_into_new_pid_ns, pid > 0: self.save_exec_file_pid(child_pid, ..)?
SaveExecFilePid ==
    /\ pc[Jailer] = "save_pid"
    /\ \E choice \in {"ok", "open", "write"} :
          LET host == Resolve(Jailer, PidFilePath(ChrootExecFile))
              outcome == SavePidOutcome(fs, host, choice)
          IN  /\ Log(Jailer, "save_exec_file_pid", 0, PidFilePath(ChrootExecFile), outcome = "ok")
              /\ fs' = SaveExecFilePidFs(fs, host, child_pid, outcome)
              /\ IF outcome = "ok" THEN Goto(Jailer, "exit") ELSE Fail(Jailer)
    /\ UNCHANGED <<env, status, root, stdio, fds, idx, macvtaps, child_pid, image, new_vars, san_vars, lim_vars, tap_vars, dev_vars, copy_call, cstr_vars, special_vars>>

\* Mutant: the parent does not exit and falls through to the exec
ParentExit_FallsThrough ==
    /\ pc[Jailer] = "exit"
    /\ ExecCommand(Jailer, env)
    /\ UNCHANGED <<env, fs, status, root, stdio, fds, idx, macvtaps, child_pid, new_vars, san_vars, lim_vars, tap_vars, dev_vars, copy_call, cstr_vars, special_vars>>

\* Env::exec_into_new_pid_ns, pid > 0: unsafe { libc::exit(0) }
ParentExit ==
    /\ pc[Jailer] = "exit"
    /\ Exit(Jailer, 0)
    /\ Log(Jailer, "exit", 0, <<>>, TRUE)
    /\ UNCHANGED <<env, fs, root, stdio, idx, macvtaps, child_pid, image, new_vars, san_vars, lim_vars, tap_vars, dev_vars, copy_call, cstr_vars, special_vars>>

Next ==
    \/ SanitizeProcess \/ ParseCmdline \/ EnvNew \/ CreateChrootDir
    \/ CopyExecToChroot \/ InstallLimits \/ WriteValue \/ AttachPid
    \/ JoinNetns \/ ResolveMacvtaps \/ OpenDevNull \/ CopyCpuInfo \/ Chroot
    \/ SetupJailedFolders \/ MknodTun \/ MknodKvm \/ MknodUrandom \/ MacvtapMknod
    \/ Setsid \/ Dup2 \/ ExecDirect \/ ExecIntoNewPidNs \/ ChildExec
    \/ SaveExecFilePid \/ ParentExit
    \/ \E p \in Procs : MainPanic(p)

Spec == Init /\ [][Next]_vars

\* ======================================================= sanitize_process
\* The variables of main and Env::run
main_vars ==
    <<env, fs, pc, status, root, stdio, fds, idx, macvtaps, child_pid, image, trace>>

\* main has not started: one plan, the plain host
MainIdle ==
    /\ env = [id |-> InstanceId, chroot_dir |-> NewChrootDir,
              exec_file_path |-> ExecFilePath, uid |-> 1001, gid |-> 1002,
              start_time_us |-> 1000, start_time_cpu_us |-> 7, jailer_cpu_time_us |-> 0,
              extra_args |-> <<>>, netns |-> FALSE, daemonize |-> FALSE,
              new_pid_ns |-> FALSE, ncgroups |-> 0, nmacvtaps |-> 0, arch |-> "x86_64"]
    /\ fs = HostFs
    /\ pc = [p \in Procs |-> IF p = Jailer THEN "main" ELSE "none"]
    /\ status = [p \in Procs |-> -1]
    /\ root = [p \in Procs |-> <<>>]
    /\ stdio = [p \in Procs |-> [fd \in {STDIN_FILENO, STDOUT_FILENO, STDERR_FILENO} |-> "inherited"]]
    /\ fds = [p \in Procs |-> {}]
    /\ idx = 1 /\ macvtaps = <<>> /\ child_pid = 0
    /\ image = [p \in Procs |-> NoImage]
    /\ trace = <<>>

\* An entry of the environment block: NAME=value; unicode: name and value are
\* both valid UTF-8
EnvEntries == [key : {"VAR1", "VAR2"}, unicode : BOOLEAN]
Environs == UNION {[1..n -> EnvEntries] : n \in 0..MaxEnv}

\* No directory stream
NoDir == [fd |-> -1, buf |-> <<>>, pos |-> -1]

SanInit ==
    /\ MainIdle /\ NewIdle /\ LimIdle /\ TapIdle /\ DevIdle /\ CopyIdle /\ CstrIdle /\ SpecialIdle
    /\ \E inherited \in SUBSET (0..MaxFd) :
          open_fds = [at_start |-> inherited, now |-> inherited]
    /\ dir_stream = NoDir
    /\ environ \in Environs
    /\ san_pc = "read_dir"

\* The name of a descriptor in /proc/self/fd
FdName(fd) == ToDecimal(fd)

\* fd_str.parse::<i32>().unwrap_or(0) of an entry name
ParseFd(name) ==
    IF \E n \in 0..MaxFd : FdName(n) = name
    THEN CHOOSE n \in 0..MaxFd : FdName(n) = name
    ELSE 0

\* sanitize_process: if let Ok(mut paths) = fs::read_dir("/proc/self/fd"): the
\* directory is opened on the lowest free descriptor; with none free the open
\* fails, the if let does not match and no descriptor is closed
ReadDir ==
    /\ san_pc = "read_dir"
    /\ LET free == (0..MaxFd) \ open_fds.now
       IN  IF free = {}
           THEN san_pc' = "clean_env_vars" /\ UNCHANGED <<open_fds, dir_stream>>
           ELSE LET fd == CHOOSE n \in free : \A m \in free : n <= m
                IN  /\ open_fds' = [open_fds EXCEPT !.now = @ \cup {fd}]
                    /\ dir_stream' = [fd |-> fd, buf |-> <<>>, pos |-> -1]
                    /\ san_pc' = "next"
    /\ UNCHANGED <<environ, main_vars, new_vars, lim_vars, tap_vars, dev_vars, copy_call, cstr_vars, special_vars>>

RECURSIVE Ascending(_)
\* The members of a set of numbers in ascending order
Ascending(S) ==
    IF S = {} THEN <<>>
    ELSE LET m == CHOOSE n \in S : \A k \in S : n <= k
         IN  <<m>> \o Ascending(S \ {m})

\* What one read of /proc/self/fd returns: the names of the next open
\* descriptors after the position of the stream, DirBatch at most
DirEntries(open, pos) ==
    LET rest == Ascending({n \in open : n > pos})
    IN  SubSeq(rest, 1, IF Len(rest) < DirBatch THEN Len(rest) ELSE DirBatch)

\* sanitize_process: paths.next() when the entries read so far are used up:
\* the directory is read through its descriptor; Some(Err(_)) (the descriptor
\* was closed) and None (no entry is left) both end the while let
Getdents ==
    /\ san_pc = "next"
    /\ dir_stream.buf = <<>>
    /\ LET got == DirEntries(open_fds.now, dir_stream.pos)
       IN  IF dir_stream.fd \notin open_fds.now \/ got = <<>>
           THEN san_pc' = "drop" /\ UNCHANGED dir_stream
           ELSE /\ dir_stream' = [dir_stream EXCEPT
                                    !.buf = [i \in DOMAIN got |-> FdName(got[i])],
                                    !.pos = got[Len(got)]]
                /\ UNCHANGED san_pc
    /\ UNCHANGED <<open_fds, environ, main_vars, new_vars, lim_vars, tap_vars, dev_vars, copy_call, cstr_vars, special_vars>>

\* sanitize_process, the body of the loop: if fd > 2 { libc::close(fd) }, for
\* every entry, the one of the directory's own descriptor included
CloseEntry ==
    /\ san_pc = "next"
    /\ dir_stream.buf # <<>>
    /\ LET fd == ParseFd(Head(dir_stream.buf))
       IN  open_fds' = IF fd > STDERR_FILENO
                       THEN [open_fds EXCEPT !.now = @ \ {fd}] ELSE open_fds
    /\ dir_stream' = [dir_stream EXCEPT !.buf = Tail(@)]
    /\ UNCHANGED <<san_pc, environ, main_vars, new_vars, lim_vars, tap_vars, dev_vars, copy_call, cstr_vars, special_vars>>

\* sanitize_process: paths goes out of scope: the stream is closed, and its
\* descriptor with it when the loop has not closed it already
DropReadDir ==
    /\ san_pc = "drop"
    /\ open_fds' = [open_fds EXCEPT !.now = @ \ {dir_stream.fd}]
    /\ dir_stream' = NoDir
    /\ san_pc' = "clean_env_vars"
    /\ UNCHANGED <<environ, main_vars, new_vars, lim_vars, tap_vars, dev_vars, copy_call, cstr_vars, special_vars>>

\* std::env::remove_var(key): every entry of that name is removed
RemoveVar(block, key) == SelectSeq(block, LAMBDA entry : entry.key # key)

RECURSIVE RemoveVars(_, _)
\* The loop of clean_env_vars over the entries it has still to visit (a
\* snapshot): it ends at the first entry that is not valid Unicode
RemoveVars(block, todo) ==
    IF todo = <<>> \/ ~Head(todo).unicode THEN block
    ELSE RemoveVars(RemoveVar(block, Head(todo).key), Tail(todo))

\* std::env::vars(): the iterator panics when it reaches an entry whose name
\* or value is not valid Unicode
VarsPanics(block) == \E i \in DOMAIN block : ~block[i].unicode

\* clean_env_vars: for (key, _) in p_env::vars() { p_env::remove_var(key); }
CleanEnvVars ==
    /\ san_pc = "clean_env_vars"
    /\ environ' = RemoveVars(environ, environ)
    /\ san_pc' = IF VarsPanics(environ) THEN "panic" ELSE "done"
    /\ UNCHANGED <<open_fds, dir_stream, main_vars, new_vars, lim_vars, tap_vars, dev_vars, copy_call, cstr_vars, special_vars>>

SanNext == ReadDir \/ Getdents \/ CloseEntry \/ DropReadDir \/ CleanEnvVars

SanSpec == SanInit /\ [][SanNext]_vars

\* ================================================================ Env::new
\* A command-line string is the sequence of its '=' and '/' characters and of
\* its maximal runs of other characters: "cpuset.cpus=2" is
\* <<"cpuset.cpus", "=", "2">> and "../x" is <<"..", "/", "x">>.

RECURSIVE Split(_, _)
\* str::split(sep): the pieces between the occurrences of sep, all of them
Split(str, sep) ==
    IF \A i \in DOMAIN str : str[i] # sep THEN <<str>>
    ELSE LET i == CHOOSE k \in DOMAIN str :
                     str[k] = sep /\ \A j \in 1..(k - 1) : str[j] # sep
         IN  <<SubSeq(str, 1, i - 1)>> \o Split(SubSeq(str, i + 1, Len(str)), sep)

\* Path::components(): a leading '/' is RootDir, ".." is ParentDir, "." is
\* CurDir only as the first component of a relative path (elsewhere it is
\* normalized away, like an empty component), anything else is Normal
Components(path) ==
    LET rooted == Len(path) > 0 /\ path[1] = "/"
        pieces == Split(path, "/")
        kind(i) == IF pieces[i] = <<>> THEN "skip"
                   ELSE IF pieces[i] = <<"..">> THEN "ParentDir"
                   ELSE IF pieces[i] = <<".">>
                   THEN (IF i = 1 /\ ~rooted THEN "CurDir" ELSE "skip")
                   ELSE "Normal"
        kinds == [i \in DOMAIN pieces |-> kind(i)]
    IN  (IF rooted THEN <<"RootDir">> ELSE <<>>)
        \o SelectSeq(kinds, LAMBDA k : k # "skip")

\* Env::new: path.components().any(|c| c == CurDir || c == ParentDir ||
\* c == RootDir)
InvalidCgroupPath(path) ==
    \E k \in DOMAIN Components(path) :
       Components(path)[k] \in {"CurDir", "ParentDir", "RootDir"}

\* The characters of the file names of the host
Spell(name) ==
    CASE name = "firecracker" -> <<"f", "i", "r", "e", "c", "r", "a", "c", "k", "e", "r">>
      [] name = "my-firecracker2" ->
            <<"m", "y", "-", "f", "i", "r", "e", "c", "r", "a", "c", "k", "e", "r", "2">>
      [] name = "firecracke" -> <<"f", "i", "r", "e", "c", "r", "a", "c", "k", "e">>
      [] name = "jailer" -> <<"j", "a", "i", "l", "e", "r">>
      [] name = "bin" -> <<"b", "i", "n">>
      [] OTHER -> <<>>

\* str::contains(sub)
Contains(str, sub) ==
    \E i \in 1..(Len(str) - Len(sub) + 1) : SubSeq(str, i, i + Len(sub) - 1) = sub

\* The host Env::new looks at: files, directories and symbolic links (data:
\* the target)
NewHostFs ==
    LET dir == Node("dir", RootId.uid, RootId.gid, 493, <<>>)
        file == Node("file", RootId.uid, RootId.gid, 493, <<>>)
        link(target) == Node("link", RootId.uid, RootId.gid, 511, target)
    IN  (<<>> :> dir) @@ (<<"usr">> :> dir) @@ (<<"usr", "bin">> :> dir)
        @@ (<<"usr", "bin", "firecracker">> :> file)
        @@ (<<"usr", "bin", "my-firecracker2">> :> file)
        @@ (<<"usr", "bin", "firecracke">> :> file)
        @@ (<<"usr", "bin", "jailer">> :> file)
        @@ (<<"srv">> :> dir) @@ (<<"srv", "jailer">> :> dir)
        @@ (<<"opt">> :> dir)
        @@ (<<"opt", "fc">> :> link(<<"usr", "bin", "firecracker">>))
        @@ (<<"opt", "firecracker">> :> link(<<"usr", "bin", "jailer">>))
        @@ (<<"opt", "jails">> :> link(<<"srv", "jailer">>))
        @@ (<<"opt", "gone">> :> link(<<"nowhere">>))

RECURSIVE Resolved(_, _, _)
\* fs::canonicalize of an absolute path: symbolic links are followed to the
\* end; it fails when nothing is there
Resolved(f, path, fuel) ==
    IF ~Exists(f, path) \/ fuel = 0 THEN [ok |-> FALSE, path |-> path]
    ELSE IF f[path].kind = "link" THEN Resolved(f, f[path].data, fuel - 1)
    ELSE [ok |-> TRUE, path |-> path]

Canonicalize(f, path) == Resolved(f, path, Cardinality(DOMAIN f))

\* The numbers the command lines of the model spell
KnownNumbers == {0, 1, 2, 3, 1001, 1002}

\* str::parse::<u32>() and ::<u8>(): the number a decimal string spells, -1
\* for Err
ParseNumber(str) ==
    IF \E n \in KnownNumbers : ToDecimal(n) = str
    THEN CHOOSE n \in KnownNumbers : ToDecimal(n) = str
    ELSE -1

\* No plan: what Env::new leaves the caller with when it returns Err
NoPlan ==
    [chroot_dir |-> <<>>, exec_file_path |-> <<>>, uid |-> 0, gid |-> 0,
     cgroups |-> <<>>, parent_cgroup |-> <<>>, cgroup_ver |-> 0]
Err(error) == [ok |-> FALSE, err |-> error, plan |-> NoPlan]
Ok(plan) == [ok |-> TRUE, err |-> "", plan |-> plan]

\* Mutant: the name of the path as given is checked, not that of the file it
\* leads to
ValidateExecFile_GivenName(f, exec_file) ==
    LET canon == Canonicalize(f, exec_file)
    IN  IF ~canon.ok THEN Err("Canonicalize")
        ELSE IF f[canon.path].kind # "file" THEN Err("NotAFile")
        ELSE IF ~Contains(Spell(FileName(exec_file)), Spell("firecracker"))
        THEN Err("ExecFileName")
        ELSE Ok([NoPlan EXCEPT !.exec_file_path = canon.path])

\* Env::validate_exec_file: canonicalize, is_file, file_name contains
\* "firecracker"
ValidateExecFile(f, exec_file) ==
    LET canon == Canonicalize(f, exec_file)
    IN  IF ~canon.ok THEN Err("Canonicalize")
        ELSE IF f[canon.path].kind # "file" THEN Err("NotAFile")
        ELSE IF Len(canon.path) = 0 THEN Err("ExtractFileName")
        ELSE IF ~Contains(Spell(FileName(canon.path)), Spell("firecracker"))
        THEN Err("ExecFileName")
        ELSE Ok([NoPlan EXCEPT !.exec_file_path = canon.path])

\* Mutant: the id comes before the name of the exec file
ChrootDir_IdFirst(base, exec_file_name, id) ==
    Push(Push(Push(base, id), exec_file_name), "root")

\* Env::new: chroot_dir.push(&exec_file_name); .push(id); .push("root")
ChrootDir(base, exec_file_name, id) ==
    Push(Push(Push(base, exec_file_name), id), "root")

\* Env::new: aux = cg.split('=').collect(); the check
\* !(aux.len() != 2 || aux[1].is_empty())
CgroupFormatOk(cg) ==
    LET aux == Split(cg, "=")
    IN  Len(aux) = 2 /\ aux[2] # <<>>

RECURSIVE NewCgroups(_, _, _)
\* Env::new, the loop over the --cgroup arguments: the first defect ends it;
\* built: the results of builder.new_cgroup (an external call), in order
NewCgroups(cgs, built, done) ==
    IF cgs = <<>> THEN Ok([NoPlan EXCEPT !.cgroups = done])
    ELSE LET cg == Head(cgs)
             aux == Split(cg, "=")
         IN  IF ~CgroupFormatOk(cg) THEN Err("CgroupFormat")
             ELSE IF InvalidCgroupPath(aux[1]) THEN Err("CgroupInvalidFile")
             ELSE IF ~Head(built) THEN Err("CgroupBuilder")
             ELSE NewCgroups(Tail(cgs), Tail(built),
                             Append(done, [file |-> aux[1], value |-> aux[2]]))

\* Env::new: the first failing check returns its error; otherwise the plan
EnvNewResult(f, a) ==
    LET exec == ValidateExecFile(f, a.exec_file)
        base == Canonicalize(f, a.chroot_base)
        name == FileName(exec.plan.exec_file_path)
        parent == IF a.parent_cgroup = <<>> THEN <<name>> ELSE a.parent_cgroup
        cgroups == NewCgroups(a.cgroups, a.new_cgroup_ok, <<>>)
    IN  IF ~a.id_valid THEN Err("InvalidInstanceId")
        ELSE IF ~exec.ok THEN exec
        ELSE IF ~base.ok THEN Err("Canonicalize")
        ELSE IF f[base.path].kind # "dir" THEN Err("NotADirectory")
        ELSE IF ParseNumber(a.uid) < 0 THEN Err("Uid")
        ELSE IF ParseNumber(a.gid) < 0 THEN Err("Gid")
        ELSE IF InvalidCgroupPath(parent) THEN Err("CgroupInvalidParentPath")
        ELSE IF ParseNumber(a.cgroup_ver) < 0 THEN Err("CgroupInvalidVersion")
        ELSE IF a.cgroups # <<>> /\ ~a.builder_ok THEN Err("CgroupBuilder")
        ELSE IF ~cgroups.ok THEN cgroups
        ELSE Ok([chroot_dir |-> ChrootDir(base.path, name, a.id),
                 exec_file_path |-> exec.plan.exec_file_path,
                 uid |-> ParseNumber(a.uid), gid |-> ParseNumber(a.gid),
                 cgroups |-> cgroups.plan.cgroups, parent_cgroup |-> parent,
                 cgroup_ver |-> ParseNumber(a.cgroup_ver)])

\* The values of --exec-file, --chroot-base-dir, --parent-cgroup (<<>>: not
\* given) and --cgroup of the model
ExecFileArgs ==
    {<<"usr", "bin", "firecracker">>, <<"usr", "bin", "my-firecracker2">>,
     <<"usr", "bin", "firecracke">>, <<"opt", "fc">>, <<"opt", "firecracker">>,
     <<"usr", "bin">>, <<"opt", "gone">>}
ChrootBaseArgs ==
    {<<"srv", "jailer">>, <<"opt", "jails">>, <<"usr", "bin", "jailer">>, <<"nowhere">>}
ParentCgroupArgs ==
    {<<>>, <<"fc">>, <<"a", "/", "b">>, <<"/", "root">>, <<"..", "/", "x">>,
     <<"a", "/", "..", "/", "b">>, <<".", "/", "x">>, <<"a", "/", ".", "/", "b">>}
CgroupArgs ==
    {<<"cpuset.cpus", "=", "2-4,5.3">>, <<"memory.swap.high", "=", "2">>,
     <<"cpuset.cpus", "=">>, <<"cpuset.cpus">>, <<"=", "2">>,
     <<"io.max", "=", "8:0 rbps", "=", "1048576">>,
     <<"..", "/", "file_name", "=", "1">>, <<"/", "home", "=", "1">>,
     <<"cpu", "/", ".", "/", "shares", "=", "1">>}

\* The values of --cgroup-version of the model: the two versions, a number
\* that is no version, and a value that is no number
CgroupVersionArgs == {"1", "2", "3", "x"}

\* The arguments Env::new is given. CgroupBuilder::new (crate::cgroup) is
\* given the parsed version; builder_ok is its answer, and it builds nothing
\* but versions 1 and 2.
NewInit ==
    /\ MainIdle /\ SanIdle /\ LimIdle /\ TapIdle /\ DevIdle /\ CopyIdle /\ CstrIdle /\ SpecialIdle
    /\ \E n \in 0..MaxCgroupArgs :
          args \in [ id : {InstanceId}, id_valid : BOOLEAN,
                     exec_file : ExecFileArgs, chroot_base : ChrootBaseArgs,
                     uid : {"1001", "zzz"}, gid : {"1002"},
                     parent_cgroup : ParentCgroupArgs,
                     cgroup_ver : CgroupVersionArgs,
                     cgroups : [1..n -> CgroupArgs],
                     builder_ok : BOOLEAN,
                     new_cgroup_ok : [1..n -> BOOLEAN] ]
    /\ args.builder_ok => args.cgroup_ver \in {"1", "2"}
    /\ result = Err("pending")

\* Env::new(arguments, ..) on the host
New ==
    /\ result.err = "pending"
    /\ result' = EnvNewResult(NewHostFs, args)
    /\ UNCHANGED <<args, main_vars, san_vars, lim_vars, tap_vars, dev_vars, copy_call, cstr_vars, special_vars>>

NewNext == New

NewSpec == NewInit /\ [][NewNext]_vars

\* ================================================ Env::parse_resource_limits
\* Here a string is the sequence of its characters.

\* resource_limits::FSIZE_ARG and NO_FILE_ARG
FSIZE_ARG == <<"f", "s", "i", "z", "e">>
NO_FILE_ARG == <<"n", "o", "-", "f", "i", "l", "e">>

\* u64::MAX, in decimal
U64_MAX == <<"1", "8", "4", "4", "6", "7", "4", "4", "0", "7", "3", "7", "0", "9", "5", "5", "1", "6", "1", "5">>

DecimalDigits == {"0", "1", "2", "3", "4", "5", "6", "7", "8", "9"}
DigitValue(c) == CHOOSE n \in 0..9 : Digit(n) = c

\* Mutant: the argument is split at its last '='
SplitOnce_Last(str, sep) ==
    IF \A i \in DOMAIN str : str[i] # sep THEN [some |-> FALSE, name |-> <<>>, value |-> <<>>]
    ELSE LET i == CHOOSE k \in DOMAIN str :
                     str[k] = sep /\ \A j \in (k + 1)..Len(str) : str[j] # sep
         IN  [some |-> TRUE, name |-> SubSeq(str, 1, i - 1),
              value |-> SubSeq(str, i + 1, Len(str))]

\* str::split_once(sep): None without a sep, else what is before the first
\* sep and all that is after it
SplitOnce(str, sep) ==
    IF \A i \in DOMAIN str : str[i] # sep THEN [some |-> FALSE, name |-> <<>>, value |-> <<>>]
    ELSE LET i == CHOOSE k \in DOMAIN str :
                     str[k] = sep /\ \A j \in 1..(k - 1) : str[j] # sep
         IN  [some |-> TRUE, name |-> SubSeq(str, 1, i - 1),
              value |-> SubSeq(str, i + 1, Len(str))]

RECURSIVE StripZeros(_)
\* The decimal digits of a number, without its leading zeros
StripZeros(digits) ==
    IF Len(digits) > 1 /\ Head(digits) = "0" THEN StripZeros(Tail(digits)) ELSE digits

RECURSIVE DigitsGreater(_, _)
\* a > b, for two numbers of as many digits
DigitsGreater(a, b) ==
    /\ a # <<>>
    /\ \/ DigitValue(Head(a)) > DigitValue(Head(b))
       \/ Head(a) = Head(b) /\ DigitsGreater(Tail(a), Tail(b))

\* The number these digits spell does not fit 64 bits
Overflows(digits) ==
    LET n == StripZeros(digits)
    IN  \/ Len(n) > Len(U64_MAX)
        \/ Len(n) = Len(U64_MAX) /\ DigitsGreater(n, U64_MAX)

\* str::parse::<u64>(): an optional '+', then decimal digits, read from the
\* left; Empty for "", InvalidDigit for a lone sign and at the first character
\* that is no digit, PosOverflow when the digits read so far exceed u64::MAX.
\* The number is kept as its decimal digits.
ParseU64(str) ==
    LET digits == IF str # <<>> /\ Head(str) = "+" THEN Tail(str) ELSE str
        stop == IF \A i \in DOMAIN digits : digits[i] \in DecimalDigits
                THEN Len(digits) + 1
                ELSE CHOOSE k \in DOMAIN digits :
                        /\ digits[k] \notin DecimalDigits
                        /\ \A j \in 1..(k - 1) : digits[j] \in DecimalDigits
        read == SubSeq(digits, 1, stop - 1)
    IN  IF str = <<>> THEN [ok |-> FALSE, err |-> "Empty", number |-> <<>>]
        ELSE IF digits = <<>> THEN [ok |-> FALSE, err |-> "InvalidDigit", number |-> <<>>]
        ELSE IF read # <<>> /\ Overflows(read)
        THEN [ok |-> FALSE, err |-> "PosOverflow", number |-> <<>>]
        ELSE IF stop <= Len(digits) THEN [ok |-> FALSE, err |-> "InvalidDigit", number |-> <<>>]
        ELSE [ok |-> TRUE, err |-> "", number |-> StripZeros(read)]

\* ResourceLimits::default(), before any set_file_size or set_no_file
DefaultLimits == [file_size |-> <<>>, no_file |-> <<>>]

\* The Result of parse_resource_limits: Ok(()), or Err(Error::kind(what, why))
LimitOk == [ok |-> TRUE, kind |-> "", what |-> <<>>, why |-> ""]
LimitErr(kind, what, why) == [ok |-> FALSE, kind |-> kind, what |-> what, why |-> why]
LimitPending == LimitErr("pending", <<>>, "")

\* One turn of the loop of parse_resource_limits: what it returns early with
\* (LimitOk: it goes on to the next arg) and the limits it leaves
ParseResourceLimit(limits, arg) ==
    LET split == SplitOnce(arg, "=")
        limit_value == ParseU64(split.value)
    IN  IF ~split.some
        THEN [result |-> LimitErr("ResLimitFormat", arg, ""), limits |-> limits]
        ELSE IF ~limit_value.ok
        THEN [result |-> LimitErr("ResLimitValue", split.value, limit_value.err),
              limits |-> limits]
        ELSE IF split.name = FSIZE_ARG
        THEN [result |-> LimitOk, limits |-> [limits EXCEPT !.file_size = limit_value.number]]
        ELSE IF split.name = NO_FILE_ARG
        THEN [result |-> LimitOk, limits |-> [limits EXCEPT !.no_file = limit_value.number]]
        ELSE [result |-> LimitErr("ResLimitArgument", split.name, ""), limits |-> limits]

\* The --resource-limit values of the model
LimitArgs ==
    {<<>>,
     <<"f", "o", "o">>,
     <<"f", "o", "o", "=", "2">>,
     <<"=", "2">>,
     <<"f", "s", "i", "z", "e", "=", "f", "o", "o">>,
     <<"f", "s", "i", "z", "e", "=", "2", ".", "3">>,
     <<"f", "s", "i", "z", "e", "=">>,
     <<"f", "o", "o", "=", "b", "a", "r">>,
     <<"f", "s", "i", "z", "e", "=", "4", "0", "9", "8">>,
     <<"n", "o", "-", "f", "i", "l", "e", "=", "1", "0", "2", "4">>,
     <<"f", "s", "i", "z", "e", "=", "1", "=", "2">>,
     <<"n", "o", "-", "f", "i", "l", "e", "=", "+", "5">>,
     <<"f", "s", "i", "z", "e", "=", "0", "0", "7">>,
     <<"f", "s", "i", "z", "e", "=", "1", "8", "4", "4", "6", "7", "4", "4", "0", "7", "3", "7", "0", "9", "5", "5", "1", "6", "1", "5">>,
     <<"n", "o", "-", "f", "i", "l", "e", "=", "1", "8", "4", "4", "6", "7", "4", "4", "0", "7", "3", "7", "0", "9", "5", "5", "1", "6", "1", "6">>}

\* parse_resource_limits is called with a fresh ResourceLimits
LimInit ==
    /\ MainIdle /\ NewIdle /\ SanIdle /\ TapIdle /\ DevIdle /\ CopyIdle /\ CstrIdle /\ SpecialIdle
    /\ \E n \in 0..MaxLimitArgs : limit_args \in [1..n -> LimitArgs]
    /\ limit_next = 1
    /\ resource_limits = DefaultLimits
    /\ limit_result = LimitPending

\* for arg in args { .. }: one turn
ParseNextLimit ==
    /\ limit_result = LimitPending /\ limit_next <= Len(limit_args)
    /\ LET turn == ParseResourceLimit(resource_limits, limit_args[limit_next])
       IN  /\ resource_limits' = turn.limits
           /\ IF turn.result.ok
              THEN limit_next' = limit_next + 1 /\ UNCHANGED limit_result
              ELSE limit_result' = turn.result /\ UNCHANGED limit_next
    /\ UNCHANGED <<limit_args, main_vars, new_vars, san_vars, tap_vars, dev_vars, copy_call, cstr_vars, special_vars>>

\* Ok(()) after the last arg
ParseLimitsDone ==
    /\ limit_result = LimitPending /\ limit_next > Len(limit_args)
    /\ limit_result' = LimitOk
    /\ UNCHANGED <<limit_args, limit_next, resource_limits, main_vars, new_vars, san_vars, tap_vars, dev_vars, copy_call, cstr_vars, special_vars>>

LimNext == ParseNextLimit \/ ParseLimitsDone

LimSpec == LimInit /\ [][LimNext]_vars

\* ====================================================================== Tap
\* An interface name is the sequence of its bytes, each a one-character
\* string; NUL is the zero byte.
IFACE_NAME_MAX_LEN == 16
NUL == "\\0"

\* n zero bytes
Nuls(n) == [i \in 1..n |-> NUL]

\* The bytes of a buffer before its first zero byte (all of it without one)
UntilNul(buf) ==
    IF \A i \in DOMAIN buf : buf[i] # NUL THEN buf
    ELSE SubSeq(buf, 1, (CHOOSE k \in DOMAIN buf :
                            buf[k] = NUL /\ \A j \in 1..(k - 1) : buf[j] # NUL) - 1)

\* Mutant: a name of 16 bytes is let through, cut to the buffer
BuildTerminatedIfName_SixteenOk(if_name) ==
    IF Len(if_name) > IFACE_NAME_MAX_LEN THEN [ok |-> FALSE, buf |-> <<>>]
    ELSE [ok |-> TRUE,
          buf |-> SubSeq(if_name \o Nuls(IFACE_NAME_MAX_LEN), 1, IFACE_NAME_MAX_LEN)]

\* build_terminated_if_name
BuildTerminatedIfName(if_name) ==
    IF Len(if_name) >= IFACE_NAME_MAX_LEN THEN [ok |-> FALSE, buf |-> <<>>]
    ELSE [ok |-> TRUE, buf |-> if_name \o Nuls(IFACE_NAME_MAX_LEN - Len(if_name))]

\* Tap::if_name_as_str (the names of the model are ASCII, so from_utf8 is Ok)
IfNameAsStr(if_name) == UntilNul(if_name)

\* The flags of the two opens and of TUNSETIFF
OpenFlags == {"O_RDWR", "O_NONBLOCK", "O_CLOEXEC"}
TapFlags == {"IFF_TAP", "IFF_NO_PI", "IFF_VNET_HDR"}
DevNetTun == <<"dev", "net", "tun">>

\* One system call of open_named, in the history
Syscall(op, path, fd, arg, flags, ok) ==
    [op |-> op, path |-> path, fd |-> fd, arg |-> arg, flags |-> flags, ok |-> ok]

\* An open descriptor is [path, flags, iface, opened_as]: what was opened and
\* how, the TAP interface attached to it (<<>>: none), and, as history, the
\* name open_named was called with.
\* open(2) and File: the lowest free descriptor above stderr
LowestFd(files) ==
    CHOOSE n \in 3..(3 + Cardinality(DOMAIN files)) :
       n \notin DOMAIN files /\ \A m \in 3..(n - 1) : m \in DOMAIN files

\* ---- the kernel's side of TUNSETIFF and of close (drivers/net/tun.c)
\* The name the kernel reads in ifr_name: a C string of at most 15 bytes
IfrName(buf) == UntilNul(SubSeq(buf, 1, IFACE_NAME_MAX_LEN - 1))

\* dev_valid_name
DevValidName(name) ==
    /\ name # <<>> /\ Len(name) < IFACE_NAME_MAX_LEN
    /\ name \notin {<<".">>, <<".", ".">>}
    /\ \A i \in DOMAIN name : name[i] \notin {"/", ":", " "}

\* The place of "%d" in a name (0: none)
FormatAt(name) ==
    LET at == {i \in 1..(Len(name) - 1) : name[i] = "%" /\ name[i + 1] = "d"}
    IN  IF at = {} THEN 0 ELSE CHOOSE i \in at : \A j \in at : i <= j

\* snprintf(buf, IFNAMSIZ, name, k), for k < 10
Formatted(name, k) ==
    SubSeq(name, 1, FormatAt(name) - 1) \o <<Digit(k)>>
       \o SubSeq(name, FormatAt(name) + 2, Len(name))

\* Mutant: the number is always 0
DevAllocName_Zero(ifaces, name) == Formatted(name, 0)

\* dev_alloc_name: the name with the least number that no interface has
DevAllocName(ifaces, name) ==
    LET free == {k \in 0..Cardinality(DOMAIN ifaces) : Formatted(name, k) \notin DOMAIN ifaces}
    IN  Formatted(name, CHOOSE k \in free : \A j \in free : k <= j)

\* Mutant: an interface that is open already is attached once more
TunSetIff_SharesBusy(ifaces, buf, may_create) ==
    LET asked == IfrName(buf)
        template == IF asked = <<>> THEN <<"t", "a", "p", "%", "d">> ELSE asked
        name == IF FormatAt(template) # 0 THEN DevAllocName(ifaces, template) ELSE template
        back == name \o <<NUL>> \o SubSeq(buf, Len(name) + 2, IFACE_NAME_MAX_LEN)
    IN  IF asked \in DOMAIN ifaces
        THEN [ok |-> TRUE, errno |-> "", name |-> asked, buf |-> buf,
              ifaces |-> [ifaces EXCEPT ![asked].attached = TRUE]]
        ELSE IF ~may_create
        THEN [ok |-> FALSE, errno |-> "EPERM", name |-> <<>>, buf |-> buf, ifaces |-> ifaces]
        ELSE IF ~DevValidName(name) \/ (\E i \in DOMAIN name : name[i] = "%")
        THEN [ok |-> FALSE, errno |-> "EINVAL", name |-> <<>>, buf |-> buf, ifaces |-> ifaces]
        ELSE [ok |-> TRUE, errno |-> "", name |-> name, buf |-> back,
              ifaces |-> (name :> [attached |-> TRUE, persistent |-> FALSE]) @@ ifaces]

\* tun_set_iff on a fresh /dev/net/tun descriptor, asked for a TAP: attach to
\* the interface of that name if it is there and free, else create one, named
\* as asked ("tap%d" when no name is given); the name goes back in ifr_name
\* (strcpy: the bytes behind its terminator stay as they were)
TunSetIff(ifaces, buf, may_create) ==
    LET asked == IfrName(buf)
        template == IF asked = <<>> THEN <<"t", "a", "p", "%", "d">> ELSE asked
        name == IF FormatAt(template) # 0 THEN DevAllocName(ifaces, template) ELSE template
        back == name \o <<NUL>> \o SubSeq(buf, Len(name) + 2, IFACE_NAME_MAX_LEN)
    IN  IF asked \in DOMAIN ifaces
        THEN IF ifaces[asked].attached
             THEN [ok |-> FALSE, errno |-> "EBUSY", name |-> <<>>, buf |-> buf, ifaces |-> ifaces]
             ELSE [ok |-> TRUE, errno |-> "", name |-> asked, buf |-> buf,
                   ifaces |-> [ifaces EXCEPT ![asked].attached = TRUE]]
        ELSE IF ~may_create
        THEN [ok |-> FALSE, errno |-> "EPERM", name |-> <<>>, buf |-> buf, ifaces |-> ifaces]
        ELSE IF ~DevValidName(name) \/ (\E i \in DOMAIN name : name[i] = "%")
        THEN [ok |-> FALSE, errno |-> "EINVAL", name |-> <<>>, buf |-> buf, ifaces |-> ifaces]
        ELSE [ok |-> TRUE, errno |-> "", name |-> name, buf |-> back,
              ifaces |-> (name :> [attached |-> TRUE, persistent |-> FALSE]) @@ ifaces]

\* close of a descriptor: an interface attached to it is detached, and is
\* gone unless it is persistent
Release(ifaces, file) ==
    IF file.iface = <<>> \/ file.iface \notin DOMAIN ifaces THEN ifaces
    ELSE IF ifaces[file.iface].persistent
    THEN [ifaces EXCEPT ![file.iface].attached = FALSE]
    ELSE [n \in DOMAIN ifaces \ {file.iface} |-> ifaces[n]]

\* ---- the MACVTAP interfaces of the host: what MacVTap::get_device_node
\* answers (a name that is not here: Err), and what is at the device nodes
MacvtapNodes ==
    (<<"m", "a", "c", "v", "t", "a", "p", "0">> :> <<"dev", "tap4">>)
    @@ (<<"v", "t", "a", "p", "1">> :> <<"dev", "tap5">>)
    @@ (<<".", "/", ".", "/", ".", "/", ".", "/", "m", "a", "c", "v", "t", "a", "p", "0">> :> <<"dev", "tap4">>)
DevNodes == (<<"dev", "tap4">> :> "char") @@ (<<"dev", "tap5">> :> "file")

\* ---- Tap
\* Result<Tap>: Ok(Tap { tap_file, if_name }) or Err(Error::err(errno))
NoTap == [tap_file |-> -1, if_name |-> <<>>]
TapOk(tap_file, if_name) ==
    [ok |-> TRUE, err |-> "", errno |-> "",
     tap |-> [tap_file |-> tap_file, if_name |-> if_name]]
TapErr(err, errno) == [ok |-> FALSE, err |-> err, errno |-> errno, tap |-> NoTap]

\* What a call leaves: its result, its system calls, the descriptors and the
\* interfaces
Outcome(res, syscalls, files, ifaces) ==
    [result |-> res, syscalls |-> syscalls, files |-> files, ifaces |-> ifaces]

\* Tap::macvtap_open_named: open the node, metadata(), is_char_device(), the
\* length of the name, Ok; the File is dropped (closed) on every early return
MacvtapOpenNamed(files, ifaces, if_name, dev_path, w) ==
    LET fd == LowestFd(files)
        file == [path |-> dev_path, flags |-> OpenFlags, iface |-> <<>>,
                 opened_as |-> if_name]
        open == Syscall("open", dev_path, fd, <<>>, OpenFlags, TRUE)
        fstat(ok) == Syscall("fstat", <<>>, fd, <<>>, {}, ok)
        close == Syscall("close", <<>>, fd, <<>>, {}, TRUE)
    IN  IF ~w.open_ok
        THEN Outcome(TapErr("OpenTapDev", "EACCES"),
                     <<Syscall("open", dev_path, -1, <<>>, OpenFlags, FALSE)>>, files, ifaces)
        ELSE IF ~w.stat_ok
        THEN Outcome(TapErr("StatTapDev", "EIO"), <<open, fstat(FALSE), close>>, files, ifaces)
        ELSE IF DevNodes[dev_path] # "char"
        THEN Outcome(TapErr("InvalidTapDevType", ""), <<open, fstat(TRUE), close>>,
                     files, ifaces)
        ELSE IF Len(if_name) >= IFACE_NAME_MAX_LEN
        THEN Outcome(TapErr("InvalidIfname", ""), <<open, fstat(TRUE), close>>, files, ifaces)
        ELSE Outcome(TapOk(fd, if_name \o Nuls(IFACE_NAME_MAX_LEN - Len(if_name))),
                     <<open, fstat(TRUE)>>, (fd :> file) @@ files, ifaces)

\* Mutant: the descriptor stays open when TUNSETIFF fails
TapOpenNamed_LeaksTun(files, ifaces, if_name, w) ==
    LET terminated_if_name == BuildTerminatedIfName(if_name)
        fd == LowestFd(files)
        ifreq == TunSetIff(ifaces, terminated_if_name.buf, w.may_create)
        file == [path |-> DevNetTun, flags |-> OpenFlags, iface |-> ifreq.name,
                 opened_as |-> if_name]
        open == Syscall("open", DevNetTun, fd, <<>>, OpenFlags, TRUE)
        ioctl == Syscall("TUNSETIFF", <<>>, fd, terminated_if_name.buf, TapFlags, ifreq.ok)
    IN  IF ~terminated_if_name.ok
        THEN Outcome(TapErr("InvalidIfname", ""), <<>>, files, ifaces)
        ELSE IF ~w.open_ok
        THEN Outcome(TapErr("OpenTun", "EACCES"),
                     <<Syscall("open", DevNetTun, -1, <<>>, OpenFlags, FALSE)>>, files, ifaces)
        ELSE IF ~ifreq.ok
        THEN Outcome(TapErr("IoctlError", ifreq.errno), <<open, ioctl>>,
                     (fd :> [file EXCEPT !.iface = <<>>]) @@ files, ifaces)
        ELSE Outcome(TapOk(fd, ifreq.buf), <<open, ioctl>>, (fd :> file) @@ files,
                     ifreq.ifaces)

\* Tap::tap_open_named: build_terminated_if_name, open /dev/net/tun, TUNSETIFF
\* with the name and the flags, Ok with the name the kernel gave back; the
\* File is dropped (closed) when the ioctl fails
TapOpenNamed(files, ifaces, if_name, w) ==
    LET terminated_if_name == BuildTerminatedIfName(if_name)
        fd == LowestFd(files)
        ifreq == TunSetIff(ifaces, terminated_if_name.buf, w.may_create)
        file == [path |-> DevNetTun, flags |-> OpenFlags, iface |-> ifreq.name,
                 opened_as |-> if_name]
        open == Syscall("open", DevNetTun, fd, <<>>, OpenFlags, TRUE)
        ioctl == Syscall("TUNSETIFF", <<>>, fd, terminated_if_name.buf, TapFlags, ifreq.ok)
        close == Syscall("close", <<>>, fd, <<>>, {}, TRUE)
    IN  IF ~terminated_if_name.ok
        THEN Outcome(TapErr("InvalidIfname", ""), <<>>, files, ifaces)
        ELSE IF ~w.open_ok
        THEN Outcome(TapErr("OpenTun", "EACCES"),
                     <<Syscall("open", DevNetTun, -1, <<>>, OpenFlags, FALSE)>>, files, ifaces)
        ELSE IF ~ifreq.ok
        THEN Outcome(TapErr("IoctlError", ifreq.errno), <<open, ioctl, close>>, files, ifaces)
        ELSE Outcome(TapOk(fd, ifreq.buf), <<open, ioctl>>, (fd :> file) @@ files,
                     ifreq.ifaces)

\* Mutant: a MACVTAP node that fails to open falls back to /dev/net/tun
OpenNamedOutcome_FallsBack(files, ifaces, if_name, w) ==
    LET macvtap == MacvtapOpenNamed(files, ifaces, if_name, MacvtapNodes[if_name], w)
    IN  IF if_name \in DOMAIN MacvtapNodes /\ macvtap.result.ok THEN macvtap
        ELSE TapOpenNamed(files, ifaces, if_name, w)

\* Tap::open_named: the MACVTAP node if get_device_node names one, else a TAP
OpenNamedOutcome(files, ifaces, if_name, w) ==
    IF if_name \in DOMAIN MacvtapNodes
    THEN MacvtapOpenNamed(files, ifaces, if_name, MacvtapNodes[if_name], w)
    ELSE TapOpenNamed(files, ifaces, if_name, w)

\* The names open_named is called with
TapNames ==
    {<<>>,
     <<"t", "a", "p", "0">>,
     <<"e", "x", "c", "l", "u", "s", "i", "v", "e", "t", "a", "p">>,
     <<"a", "1", "2", "3", "4", "5", "6", "7", "8", "9", "a", "b", "c", "d", "e">>,
     <<"a", "1", "2", "3", "4", "5", "6", "7", "8", "9", "a", "b", "c", "d", "e", "f">>,
     <<"v", "m", "%", "d">>,
     <<"a", "b", NUL, "c", "d">>,
     <<"m", "a", "c", "v", "t", "a", "p", "0">>,
     <<"v", "t", "a", "p", "1">>,
     <<".", "/", ".", "/", ".", "/", ".", "/", "m", "a", "c", "v", "t", "a", "p", "0">>}

\* What the host does to one call: whether the open and the metadata succeed,
\* and whether the process may create interfaces (CAP_NET_ADMIN)
TapWorlds == [open_ok : BOOLEAN, stat_ok : BOOLEAN, may_create : BOOLEAN]

\* The history of a call: what it was, what it left, and what was there before
TapCall(op, if_name, outcome) ==
    [op |-> op, if_name |-> if_name, result |-> outcome.result,
     syscalls |-> outcome.syscalls, files_before |-> tap_files,
     ifaces_before |-> tap_ifaces, taps_before |-> taps]

\* No Tap yet; the host may hold a persistent TAP interface tap0 that nobody
\* has open
TapInit ==
    /\ MainIdle /\ NewIdle /\ SanIdle /\ LimIdle /\ DevIdle /\ CopyIdle /\ CstrIdle /\ SpecialIdle
    /\ tap_ifaces \in {<<>>,
                        <<"t", "a", "p", "0">> :> [attached |-> FALSE, persistent |-> TRUE]}
    /\ tap_files = <<>>
    /\ taps = {}
    /\ tap_call = [op |-> "none", if_name |-> <<>>, result |-> TapErr("none", ""),
                   syscalls |-> <<>>, files_before |-> <<>>, ifaces_before |-> <<>>,
                   taps_before |-> {}]

\* Tap::open_named(if_name); the caller keeps the Tap it is given
OpenNamed ==
    /\ Cardinality(taps) < MaxTaps
    /\ \E if_name \in TapNames, w \in TapWorlds :
          LET outcome == OpenNamedOutcome(tap_files, tap_ifaces, if_name, w)
          IN  /\ tap_files' = outcome.files
              /\ tap_ifaces' = outcome.ifaces
              /\ taps' = IF outcome.result.ok THEN taps \cup {outcome.result.tap} ELSE taps
              /\ tap_call' = TapCall("open_named", if_name, outcome)
    /\ UNCHANGED <<main_vars, new_vars, san_vars, lim_vars, dev_vars, copy_call, cstr_vars, special_vars>>

\* A Tap goes out of scope: its File is closed
DropTap ==
    /\ \E tap \in taps :
          LET fd == tap.tap_file
              close == Syscall("close", <<>>, fd, <<>>, {}, TRUE)
              files == [n \in DOMAIN tap_files \ {fd} |-> tap_files[n]]
              ifaces == Release(tap_ifaces, tap_files[fd])
          IN  /\ tap_files' = files
              /\ tap_ifaces' = ifaces
              /\ taps' = taps \ {tap}
              /\ tap_call' = TapCall("drop", IfNameAsStr(tap.if_name),
                                     Outcome(TapErr("none", ""), <<close>>, files, ifaces))
    /\ UNCHANGED <<main_vars, new_vars, san_vars, lim_vars, dev_vars, copy_call, cstr_vars, special_vars>>

TapNext == OpenNamed \/ DropTap

TapSpec == TapInit /\ [][TapNext]_vars

\* ================================================== Env::mknod_and_own_dev
\* A path buffer is the sequence of its '/' and NUL bytes and of its maximal
\* runs of other bytes: b"/dev/kvm\0" is <<"/", "dev", "/", "kvm", NUL>>.

\* The file mode creation masks the jailer may be started with
Umasks == {18, 63, 191}

RECURSIVE AndNot(_, _, _)
\* mode & ~mask, on the lowest bits
AndNot(mode, mask, bits) ==
    IF bits = 0 THEN 0
    ELSE (mode % 2) * (1 - (mask % 2)) + 2 * AndNot(mode \div 2, mask \div 2, bits - 1)

\* CStr::from_bytes_with_nul: Ok for a buffer with one NUL, its last byte
FromBytesWithNul(buf) ==
    /\ Len(buf) > 0 /\ buf[Len(buf)] = NUL
    /\ \A i \in 1..(Len(buf) - 1) : buf[i] # NUL

\* The path a NUL-terminated buffer names, as the sequence of its components
BufferPath(buf) == SelectSeq(buf, LAMBDA c : c # "/" /\ c # NUL)

\* Result<()> of mknod_and_own_dev
DevOk == [ok |-> TRUE, err |-> "", errno |-> ""]
DevErr(err, errno) == [ok |-> FALSE, err |-> err, errno |-> errno]

\* Env::mknod_and_own_dev(dev_path_str, dev_major, dev_minor) in a process
\* with this umask: from_bytes_with_nul, mknod(path, S_IFCHR | S_IRUSR |
\* S_IWUSR, makedev(major, minor)) (the kernel makes the node with the mode
\* the umask leaves, owned by the caller), then chown(path, uid, gid)
MknodAndOwnDevIn(f, umask, dev_path_str, dev_major, dev_minor, choice) ==
    LET host == NewChrootDir \o BufferPath(dev_path_str)
        made == Put(f, host, Node(DevMode.kind, RootId.uid, RootId.gid,
                                  AndNot(DevMode.mode, umask, 9),
                                  <<dev_major, dev_minor>>))
        owned == [made EXCEPT ![host].uid = env.uid, ![host].gid = env.gid]
    IN  IF ~FromBytesWithNul(dev_path_str)
        THEN [result |-> DevErr("FromBytesWithNul", ""), fs |-> f]
        ELSE IF Exists(f, host) THEN [result |-> DevErr("MknodDev", "EEXIST"), fs |-> f]
        ELSE IF ~Exists(f, Pop(host)) THEN [result |-> DevErr("MknodDev", "ENOENT"), fs |-> f]
        ELSE IF choice = "mknod" THEN [result |-> DevErr("MknodDev", "EPERM"), fs |-> f]
        ELSE IF choice = "chown"
        THEN [result |-> DevErr("ChangeFileOwner", "EPERM"), fs |-> made]
        ELSE [result |-> DevOk, fs |-> owned]

\* The buffers and device numbers mknod_and_own_dev is called with
DevPathBuffers ==
    {<<"/", "dev", "/", "kvm", NUL>>, <<"/", "dev", "/", "net", "/", "tun", NUL>>,
     <<"/", "dev", "/", "urandom", NUL>>, <<"/", "some", "/", "path">>,
     <<"/", "dev", "/", "kvm">>, <<"/", "dev", NUL, "/", "kvm", NUL>>,
     <<"/", "some", "/", "path", NUL>>}
DevNumbers == {<<DEV_KVM.major, DEV_KVM.minor>>, <<DEV_NET_TUN.major, DEV_NET_TUN.minor>>,
               <<DEV_URANDOM.major, DEV_URANDOM.minor>>}

\* The history of a call
DevCall(op, buf, numbers, res) ==
    [op |-> op, dev_path_str |-> buf, numbers |-> numbers, result |-> res,
     fs_before |-> dev_fs]

\* The jail after its folders are set up, in a process with some umask
DevInit ==
    /\ MainIdle /\ NewIdle /\ SanIdle /\ LimIdle /\ TapIdle /\ CopyIdle /\ CstrIdle /\ SpecialIdle
    /\ dev_umask \in Umasks
    /\ dev_fs = LET dir == Node("dir", env.uid, env.gid, FOLDER_PERMISSIONS, "")
                IN  [p \in {NewChrootDir \o FOLDER_HIERARCHY[i] :
                              i \in DOMAIN FOLDER_HIERARCHY} |-> dir]
    /\ dev_call = [op |-> "none", dev_path_str |-> <<>>, numbers |-> <<0, 0>>,
                   result |-> DevErr("none", ""), fs_before |-> <<>>]

\* self.mknod_and_own_dev(dev_path_str, dev_major, dev_minor)
MknodAndOwnDevCall ==
    /\ \E buf \in DevPathBuffers, numbers \in DevNumbers, choice \in {"ok", "mknod", "chown"} :
          LET done == MknodAndOwnDevIn(dev_fs, dev_umask, buf, numbers[1], numbers[2], choice)
          IN  /\ dev_fs' = done.fs
              /\ dev_call' = DevCall("mknod_and_own_dev", buf, numbers, done.result)
    /\ UNCHANGED <<dev_umask, main_vars, new_vars, san_vars, lim_vars, tap_vars, copy_call, cstr_vars, special_vars>>

\* fs::remove_file of a device node (test_mknod_and_own_dev)
RemoveDev ==
    /\ \E host \in DOMAIN dev_fs :
          /\ dev_fs[host].kind = DevMode.kind
          /\ dev_fs' = [p \in DOMAIN dev_fs \ {host} |-> dev_fs[p]]
          /\ dev_call' = DevCall("remove_file", <<>>, <<0, 0>>, DevOk)
    /\ UNCHANGED <<dev_umask, main_vars, new_vars, san_vars, lim_vars, tap_vars, copy_call, cstr_vars, special_vars>>

DevNext == MknodAndOwnDevCall \/ RemoveDev

DevSpec == DevInit /\ [][DevNext]_vars

\* ------------------------------------- copy_exec_to_chroot, on its own
\* The exec files a plan may name: the host's binary, or the file a previous
\* run left in the jail of the same id
CopyExecFiles == {ExecFilePath, Push(NewChrootDir, ExecFileName)}
\* What the exec file and a file already at the destination may be
CopyModes == {493, 320, 2541}
CopyContents == {"ELF", "some_content", ""}
CopyDestinations ==
    {<<>>, <<Node("file", 1001, 1002, 420, "old")>>,
     <<Node("file", RootId.uid, RootId.gid, 511, "ELF")>>}

\* The state before the call: Env::new made the plan and main created
\* chroot_dir; the exec file exists and is a regular file
CopyInit ==
    /\ \E path \in CopyExecFiles, mode \in CopyModes, data \in CopyContents,
          dest \in CopyDestinations :
          LET dst == Push(NewChrootDir, FileName(path))
              made == Put(Put(HostFs, NewChrootDir,
                              Node("dir", RootId.uid, RootId.gid, 493, "")),
                          path, Node("file", RootId.uid, RootId.gid, mode, data))
          IN  /\ env = [id |-> InstanceId, chroot_dir |-> NewChrootDir,
                        exec_file_path |-> path, uid |-> 1001, gid |-> 1002,
                        start_time_us |-> 1000, start_time_cpu_us |-> 7,
                        jailer_cpu_time_us |-> 0, extra_args |-> <<>>,
                        netns |-> FALSE, daemonize |-> FALSE, new_pid_ns |-> FALSE,
                        ncgroups |-> 0, nmacvtaps |-> 0, arch |-> "x86_64"]
              /\ fs = IF path # dst /\ dest # <<>> THEN Put(made, dst, dest[1]) ELSE made
    /\ pc = [p \in Procs |-> IF p = Jailer THEN "main" ELSE "none"]
    /\ status = [p \in Procs |-> -1]
    /\ root = [p \in Procs |-> <<>>]
    /\ stdio = [p \in Procs |-> [fd \in {STDIN_FILENO, STDOUT_FILENO, STDERR_FILENO} |-> "inherited"]]
    /\ fds = [p \in Procs |-> {}]
    /\ idx = 1 /\ macvtaps = <<>> /\ child_pid = 0
    /\ image = [p \in Procs |-> NoImage]
    /\ trace = <<>>
    /\ NewIdle /\ SanIdle /\ LimIdle /\ TapIdle /\ DevIdle /\ CstrIdle /\ SpecialIdle
    /\ copy_call = [op |-> "none", env_before |-> env, fs_before |-> fs,
                    result |-> CopyErr("none")]

\* env.copy_exec_to_chroot(), once
CopyExecToChrootCall ==
    /\ copy_call.op = "none"
    /\ \E outcome \in {"ok", "open_from", "write"} :
          LET done == CopyExecToChrootIn(env, fs, outcome)
          IN  /\ env' = done.env
              /\ fs' = done.fs
              /\ copy_call' = [op |-> "copy_exec_to_chroot", env_before |-> env,
                               fs_before |-> fs, result |-> done.result]
    /\ UNCHANGED <<pc, status, root, stdio, fds, idx, macvtaps, child_pid, image, trace,
                   new_vars, san_vars, lim_vars, tap_vars, dev_vars, cstr_vars, special_vars>>

CopyNext == CopyExecToChrootCall

CopySpec == CopyInit /\ [][CopyNext]_vars

\* -------------------------------------------------------------- to_cstring
\* A path is the sequence of its bytes: "s" and "/" are ASCII bytes, NUL the
\* zero byte, "C3" "A9" the two bytes of the UTF-8 encoding of one
\* character, "FF" a byte no UTF-8 text holds.
MaxPathLen == 3
PathBytes == {"s", "/", NUL, "C3", "A9", "FF"}
Paths == UNION {[1..n -> PathBytes] : n \in 0..MaxPathLen}

RECURSIVE ValidUtf8(_)
\* OsString::into_string, CStr::to_str: the bytes are valid UTF-8
ValidUtf8(bytes) ==
    IF Len(bytes) = 0 THEN TRUE
    ELSE IF Head(bytes) \in {"s", "/", NUL} THEN ValidUtf8(Tail(bytes))
    ELSE IF Head(bytes) = "C3"
    THEN Len(bytes) >= 2 /\ bytes[2] = "A9" /\ ValidUtf8(Tail(Tail(bytes)))
    ELSE FALSE

\* Result<CString> of to_cstring
CStringOk(cstring) == [ok |-> TRUE, cstring |-> cstring, err |-> ""]
CStringErr(err) == [ok |-> FALSE, cstring |-> <<>>, err |-> err]
CStringPending == CStringErr("pending")

\* Mutant: the string is terminated without a look at its bytes
ToCString_NoNulCheck(path) ==
    IF ~ValidUtf8(path) THEN CStringErr("OsStringParsing")
    ELSE CStringOk(Append(path, NUL))

\* to_cstring(path): into_os_string().into_string() with ?, then
\* CString::new, which refuses a zero byte and appends the terminator
ToCString(path) ==
    IF ~ValidUtf8(path) THEN CStringErr("OsStringParsing")
    ELSE IF \E i \in DOMAIN path : path[i] = NUL THEN CStringErr("CStringParsing")
    ELSE CStringOk(Append(path, NUL))

\* CStr -> str -> PathBuf: the bytes a C string holds are those before its
\* first zero byte; to_str checks that they are UTF-8
CStrToPath(cstring) ==
    IF ValidUtf8(UntilNul(cstring)) THEN <<UntilNul(cstring)>> ELSE <<>>

CstrInit ==
    /\ MainIdle /\ NewIdle /\ SanIdle /\ LimIdle /\ TapIdle /\ DevIdle /\ CopyIdle
    /\ SpecialIdle
    /\ cstr_path \in Paths
    /\ cstr_result = CStringPending

\* to_cstring(path)
ToCStringCall ==
    /\ cstr_result = CStringPending
    /\ cstr_result' = ToCString(cstr_path)
    /\ UNCHANGED <<cstr_path, main_vars, new_vars, san_vars, lim_vars, tap_vars, dev_vars,
                   copy_call, special_vars>>

CstrNext == ToCStringCall

CstrSpec == CstrInit /\ [][CstrNext]_vars

\* ------------------------------------------ writeln_special, readln_special
\* A string is the sequence of its characters; LF is the newline.  The file
\* is <<>> when it does not exist and <<content>> when it does.
MaxContentLen == 2
LF == "\n"
SpecialChars == {"a", "7", LF}
SpecialStrings == UNION {[1..n -> SpecialChars] : n \in 0..MaxContentLen}

\* Result<()> of writeln_special and Result<String> of readln_special
SpecialOk(line) == [ok |-> TRUE, line |-> line, err |-> ""]
SpecialErr(err) == [ok |-> FALSE, line |-> <<>>, err |-> err]

\* writeln_special(file_path, value): fs::write(file_path, format!("{}\n", value))
WritelnSpecial(file, value, ok) ==
    IF ok THEN [result |-> SpecialOk(<<>>), file |-> <<value \o <<LF>>>>]
    ELSE [result |-> SpecialErr("Write"), file |-> file]

\* readln_special(file_path): fs::read_to_string(file_path) with ?, then
\* line.pop(), which removes the last character of a string that has one
ReadlnSpecial(file) ==
    IF file = <<>> THEN SpecialErr("ReadToString")
    ELSE SpecialOk(SubSeq(file[1], 1, Len(file[1]) - 1))

\* The history of a call; written: the value of the last writeln_special
\* that succeeded, as <<value>>
SpecialCall(op, value, res, written) ==
    [op |-> op, value |-> value, result |-> res, file_before |-> special_file,
     written |-> written]

SpecialInit ==
    /\ MainIdle /\ NewIdle /\ SanIdle /\ LimIdle /\ TapIdle /\ DevIdle /\ CopyIdle
    /\ CstrIdle
    /\ special_file \in {<<>>} \cup {<<content>> : content \in SpecialStrings}
    /\ special_call = [op |-> "none", value |-> <<>>, result |-> SpecialErr("none"),
                       file_before |-> <<>>, written |-> <<>>]

\* writeln_special(&file_path, value)
WritelnSpecialCall ==
    /\ \E value \in SpecialStrings, ok \in BOOLEAN :
          LET done == WritelnSpecial(special_file, value, ok)
          IN  /\ special_file' = done.file
              /\ special_call' = SpecialCall("writeln_special", value, done.result,
                                             IF ok THEN <<value>> ELSE special_call.written)
    /\ UNCHANGED <<main_vars, new_vars, san_vars, lim_vars, tap_vars, dev_vars, copy_call,
                   cstr_vars>>

\* readln_special(&file_path)
ReadlnSpecialCall ==
    /\ special_call' = SpecialCall("readln_special", <<>>, ReadlnSpecial(special_file),
                                   special_call.written)
    /\ UNCHANGED <<special_file, main_vars, new_vars, san_vars, lim_vars, tap_vars,
                   dev_vars, copy_call, cstr_vars>>

SpecialNext == WritelnSpecialCall \/ ReadlnSpecialCall

SpecialSpec == SpecialInit /\ [][SpecialNext]_vars

\* ================================================================= claims
\* Helpers over the history of operations
Range(f) == {f[k] : k \in DOMAIN f}
At(op) == {k \in DOMAIN trace : trace[k].op = op}
OpArg(t) == [i \in DOMAIN t |-> <<t[i].op, t[i].arg>>]
OpPath(t) == [i \in DOMAIN t |-> <<t[i].op, t[i].path>>]
OkCount(t, op) == Cardinality({k \in DOMAIN t : t[k].op = op /\ t[k].ok})
Upto(k) == SubSeq(trace, 1, k - 1)
After(k) == SubSeq(trace, k + 1, Len(trace))

PreChrootOps ==
    {"copy_exec", "limits", "write_value", "attach_pid", "by_name",
     "netns_open", "setns", "netns_close", "unshare", "mount_slave",
     "umount2_sys", "mount_sysfs"}
InPreChroot(e) == e.op \in PreChrootOps

ExpectedPreChroot ==
    << <<"copy_exec", 0>>, <<"limits", 0>> >>
    \o [i \in 1..env.ncgroups |-> <<"write_value", i>>]
    \o [i \in 1..env.ncgroups |-> <<"attach_pid", i>>]
    \o (IF env.netns
        THEN << <<"netns_open", 0>>, <<"setns", 0>>, <<"netns_close", 0>>,
                <<"unshare", 0>>, <<"mount_slave", 0>>, <<"umount2_sys", 0>>,
                <<"mount_sysfs", 0>> >>
        ELSE <<>>)
    \o [i \in 1..env.nmacvtaps |-> <<"by_name", i>>]

\* C1: whenever chroot is reached, the steps performed before it are exactly:
\* copy of the exec file, resource limits, every cgroup write_value then every
\* attach_pid, the netns join (iff netns is set), the resolution of every
\* declared MACVTAP, in this order and all successful; none of them is
\* performed after chroot.
C1_PreChrootOrder ==
    \A k \in At("chroot") :
       /\ OpArg(SelectSeq(Upto(k), InPreChroot)) = ExpectedPreChroot
       /\ \A i \in 1..(k - 1) : InPreChroot(trace[i]) => trace[i].ok
       /\ SelectSeq(After(k), InPreChroot) = <<>>

\* C1 witness: a run with netns, two cgroups and two MACVTAPs is past chroot
C1_Witness ==
    /\ env.netns /\ env.ncgroups >= 2 /\ env.nmacvtaps >= 2
    /\ \E k \in At("chroot") : trace[k].ok /\ k < Len(trace)

\* C2: every write_value (in declared order, one per cgroup) precedes every
\* attach_pid: when an attach_pid is performed, all cgroups have been written.
C2_WriteBeforeAttach ==
    /\ \A i \in At("write_value"), j \in At("attach_pid") : i < j
    /\ OpArg(SelectSeq(trace, LAMBDA e : e.op = "write_value"))
          \in {[i \in 1..n |-> <<"write_value", i>>] : n \in 0..env.ncgroups}
    /\ \A j \in At("attach_pid") :
          /\ OkCount(Upto(j), "write_value") = env.ncgroups
          /\ trace[j].arg = OkCount(Upto(j), "attach_pid") + 1

\* C2 witness: with two cgroups or more, the second attach_pid has happened
C2_Witness ==
    /\ env.ncgroups >= 2
    /\ \E j \in At("attach_pid") : trace[j].arg = 2 /\ trace[j].ok

PostChrootOps ==
    {"chroot", "setup_jailed_folder", "mknod_tun", "mknod_kvm", "mknod_urandom",
     "macvtap_mknod"}
InPostChroot(e) == e.op \in PostChrootOps

ExpectedPostChroot ==
    << <<"chroot", <<>> >>,
       <<"setup_jailed_folder", <<>> >>, <<"setup_jailed_folder", <<"dev">> >>,
       <<"setup_jailed_folder", <<"dev", "net">> >>, <<"setup_jailed_folder", <<"run">> >>,
       <<"mknod_tun", <<"dev", "net", "tun">> >>, <<"mknod_kvm", <<"dev", "kvm">> >>,
       <<"mknod_urandom", <<"dev", "urandom">> >> >>
    \o [i \in 1..env.nmacvtaps |-> <<"macvtap_mknod", <<"dev", "net", MacvtapName(i)>> >>]

\* C3: chroot comes before any setup_jailed_folder; the folders /, /dev,
\* /dev/net, /run are set up in this order, all before the first mknod; the
\* nodes are created in the order /dev/net/tun, /dev/kvm, /dev/urandom, then
\* /dev/net/<if_name> per resolved MACVTAP in declared order.
C3_PostChrootOrder ==
    /\ IsPrefix(OpPath(SelectSeq(trace, InPostChroot)), ExpectedPostChroot)
    /\ \A k \in At("setup_jailed_folder") \cup At("mknod_tun") :
          \E c \in At("chroot") : c < k /\ trace[c].ok

\* C3 witness: every folder and node of a run with two MACVTAPs was created
C3_Witness ==
    /\ env.nmacvtaps >= 2
    /\ OkCount(trace, "macvtap_mknod") = env.nmacvtaps
    /\ OkCount(trace, "mknod_urandom") = 1

\* The steps the exec depends on have all succeeded in the history t
RequiredStepsDone(t) ==
    /\ OkCount(t, "copy_exec") = 1 /\ OkCount(t, "limits") = 1
    /\ OkCount(t, "write_value") = env.ncgroups
    /\ OkCount(t, "attach_pid") = env.ncgroups
    /\ env.netns => OkCount(t, "setns") = 1 /\ OkCount(t, "mount_sysfs") = 1
    /\ OkCount(t, "by_name") = env.nmacvtaps
    /\ OkCount(t, "chroot") = 1
    /\ OkCount(t, "setup_jailed_folder") = 4
    /\ OkCount(t, "mknod_tun") = 1 /\ OkCount(t, "mknod_kvm") = 1
    /\ OkCount(t, "macvtap_mknod") = env.nmacvtaps
    /\ env.daemonize => OkCount(t, "setsid") = 1 /\ OkCount(t, "dup2") = 3
    /\ env.new_pid_ns => OkCount(t, "clone") = 1

\* C4: exec is last: a process execs the target at most once, only after every
\* required earlier step has succeeded, and a process whose exec succeeded
\* performs nothing afterwards.
C4_ExecLast ==
    /\ \A p \in Procs : Cardinality({k \in At("exec") : trace[k].proc = p}) <= 1
    /\ \A k \in At("exec") :
          /\ RequiredStepsDone(Upto(k))
          /\ \A i \in 1..(k - 1) :
                trace[i].proc = Jailer /\ trace[i].op \notin
                   {"mknod_urandom", "save_exec_file_pid", "panic"} => trace[i].ok
          /\ trace[k].ok => \A i \in (k + 1)..Len(trace) : trace[i].proc # trace[k].proc

\* C4 witness: the target was exec'ed by a daemonizing run with a netns, two
\* cgroups and two MACVTAPs
C4_Witness ==
    /\ env.daemonize /\ env.netns /\ env.ncgroups >= 2 /\ env.nmacvtaps >= 2
    /\ \E k \in At("exec") : trace[k].ok

\* The steps of Env::run whose failure is fatal
FatalOps ==
    {"copy_exec", "limits", "write_value", "attach_pid", "netns_open", "setns",
     "netns_close", "unshare", "mount_slave", "umount2_sys", "mount_sysfs",
     "by_name", "open_dev_null", "copy_cache_info", "copy_midr_el1_info", "chroot",
     "setup_jailed_folder", "mknod_tun", "mknod_kvm", "macvtap_mknod", "setsid",
     "dup2", "clone"}

\* C5: when a step of Env::run other than the creation of /dev/urandom fails,
\* the process performs no later step of the pipeline (it only panics), never
\* execs the target, and ends with a non-zero status.
C5_FailureIsFatal ==
    \A k \in DOMAIN trace :
       trace[k].op \in FatalOps /\ ~trace[k].ok =>
          /\ \A i \in (k + 1)..Len(trace) : trace[i].op = "panic"
          /\ pc[Jailer] \in {"panic", "exited"}
          /\ pc[Jailer] = "exited" => status[Jailer] \in Nat \ {0}
          /\ pc[Child] = "none"

\* C5 witness: the mknod of /dev/kvm failed and the process has ended
C5_Witness ==
    /\ \E k \in At("mknod_kvm") : ~trace[k].ok
    /\ pc[Jailer] = "exited"

\* What Env::run performs right after the /dev/urandom step, by the plan alone
OpAfterUrandom ==
    IF env.nmacvtaps > 0 THEN "macvtap_mknod"
    ELSE IF env.daemonize THEN "setsid"
    ELSE IF env.new_pid_ns THEN "clone" ELSE "exec"

\* C6: whether the creation of /dev/urandom succeeds or fails, Env::run goes
\* on with the same next step (MACVTAP nodes, daemonization, exec); a failed
\* mknod_and_own_dev of /dev/net/tun or /dev/kvm ends the run and no exec
\* follows.
C6_UrandomBestEffort ==
    /\ \A k \in At("mknod_urandom") :
          LET steps == SelectSeq(After(k), LAMBDA e : e.op # "print")
          IN  IF steps = <<>>
              THEN pc[Jailer] \in {"macvtap_mknod", "setsid", "final"}
              ELSE steps[1].op = OpAfterUrandom /\ steps[1].proc = Jailer
    /\ \A k \in At("mknod_tun") \cup At("mknod_kvm") :
          ~trace[k].ok =>
             /\ At("exec") = {} /\ At("mknod_urandom") = {}
             /\ pc[Jailer] \in {"panic", "exited"}

\* C6 witness: the target was exec'ed although /dev/urandom could not be created
C6_Witness ==
    /\ \E k \in At("mknod_urandom") : ~trace[k].ok
    /\ \E k \in At("exec") : trace[k].ok
    /\ env.nmacvtaps >= 1 /\ env.daemonize

\* The PID file as the invoker finds it on the host: <chroot_dir>/<exec>.pid
PidFileOnHost == Push(NewChrootDir, "firecracker.pid")

\* The operations of a process after the clone, in order
OpsAfterClone(p) ==
    LET c == CHOOSE k \in At("clone") : TRUE
        t == SelectSeq(After(c), LAMBDA e : e.proc = p)
    IN  [i \in DOMAIN t |-> t[i].op]

\* C7: after a successful clone the child only execs the target (and dies with
\* an error if exec returns) and never writes the PID file; the parent never
\* execs: it saves the child's PID in <chroot_exec_file>.pid and then exits
\* with status 0 and nothing else (or panics if the file cannot be written).
C7_DisjointRoles ==
    (\E k \in At("clone") : trace[k].ok) =>
       /\ OpsAfterClone(Child) \in {<<>>, <<"exec">>, <<"exec", "panic">>}
       /\ OpsAfterClone(Jailer) \in
             {<<>>, <<"save_exec_file_pid">>, <<"save_exec_file_pid", "exit">>,
              <<"save_exec_file_pid", "panic">>}
       /\ \A k \in At("exec") : trace[k].proc = Child
       /\ \A k \in At("save_exec_file_pid") :
             /\ trace[k].proc = Jailer
             /\ IF trace[k].ok
                THEN "panic" \notin Range(OpsAfterClone(Jailer))
                ELSE /\ "exit" \notin Range(OpsAfterClone(Jailer))
                     /\ pc[Jailer] \in {"panic", "exited"}
                     /\ status[Jailer] \in {-1, 101}
       /\ \A k \in At("exec") :
             ~trace[k].ok => /\ pc[Child] \in {"panic", "exited"}
                             /\ status[Child] \in {-1, 101}
       /\ status[Jailer] = 0 =>
             /\ OpsAfterClone(Jailer) = <<"save_exec_file_pid", "exit">>
             /\ Exists(fs, PidFileOnHost)
             /\ fs[PidFileOnHost].data = ToDecimal(child_pid)
       /\ pc[Jailer] # "execed"

\* C7 witness: the parent has exited with status 0 and the child is the target
C7_Witness ==
    /\ status[Jailer] = 0 /\ pc[Child] = "execed"
    /\ \E k \in At("clone") : trace[k].ok

\* C8 (state part): a successful save_exec_file_pid leaves <f>.pid holding the
\* PID in ASCII decimal and nothing else; after a failed one the parent never
\* exits with status 0.
SavedPidFile ==
    \A k \in At("save_exec_file_pid") :
       /\ trace[k].path = <<"firecracker.pid">>
       /\ IF trace[k].ok
          THEN /\ Exists(fs, PidFileOnHost)
               /\ fs[PidFileOnHost].kind = "file"
               /\ child_pid = 1 => fs[PidFileOnHost].data = "1"
               /\ child_pid = 11 => fs[PidFileOnHost].data = "11"
               /\ child_pid = 12 => fs[PidFileOnHost].data = "12"
               /\ child_pid = 13 => fs[PidFileOnHost].data = "13"
               /\ Len(fs[PidFileOnHost].data) = IF child_pid < 10 THEN 1 ELSE 2
          ELSE status[Jailer] # 0 /\ pc[Jailer] \in {"panic", "exited"}

\* C8: save_exec_file_pid(pid, f) creates f + ".pid" (create-new) and writes
\* pid in ASCII decimal without a newline (pid 1 gives "1"); when the file
\* already exists the call fails, the file is left as it was, and the parent
\* does not exit with status 0.
C8_SaveExecFilePid ==
    [][ /\ SavedPidFile'
        /\ pc[Jailer] = "save_pid" /\ pc'[Jailer] # "save_pid" =>
              /\ Exists(fs, PidFileOnHost) =>
                    /\ fs' = fs
                    /\ pc'[Jailer] = "panic"
                    /\ ~trace'[Len(trace')].ok
              /\ pc'[Jailer] = "exit" => ~Exists(fs, PidFileOnHost) ]_vars

\* C8 witness: with child PID 1 the parent wrote the single character "1"
C8_Witness ==
    /\ child_pid = 1
    /\ \E k \in At("save_exec_file_pid") : trace[k].ok
    /\ fs[PidFileOnHost].data = "1"

\* C9 as stated: the PID file the parent writes lies outside the child's
\* chroot view (it is not below the child's root).
C9_Original ==
    \A k \in At("save_exec_file_pid") :
       trace[k].ok =>
          \A path \in DOMAIN fs :
             fs[path].kind = "file" /\ fs[path].data = ToDecimal(child_pid)
                => ~IsPrefix(root[Child], path)

\* C9 amended: the parent writes the PID file at /<exec basename>.pid under its
\* own root, which is the jail root since chroot precedes clone: on the host
\* it is <chroot_dir>/<exec basename>.pid, next to the copied binary and inside
\* the chroot view of the child, which has the same root.
C9_PidFileInsideJail ==
    \A k \in At("save_exec_file_pid") :
       trace[k].ok =>
          /\ root[Jailer] = NewChrootDir /\ root[Child] = root[Jailer]
          /\ Exists(fs, PidFileOnHost)
          /\ fs[PidFileOnHost].data = ToDecimal(child_pid)
          /\ Pop(PidFileOnHost) = Pop(Push(NewChrootDir, "firecracker"))
          /\ Exists(fs, Push(NewChrootDir, "firecracker"))
          /\ IsPrefix(root[Child], PidFileOnHost)
          /\ \A path \in DOMAIN fs :
                Len(path) > 0 /\ path[Len(path)] = "firecracker.pid"
                   => path = PidFileOnHost

\* C9 witness: the PID file was written and the child is the exec'ed target
C9_Witness ==
    /\ \E k \in At("save_exec_file_pid") : trace[k].ok
    /\ pc[Child] = "execed"
    /\ child_pid >= 10

\* C10 as stated: the invoker sees status 0 only after --help/--version or a
\* successful exec, and a non-zero status whenever some step, the exec
\* included, failed.
C10_Original ==
    (\A p \in Procs : pc[p] \in {"none", "exited", "execed"}) =>
       /\ status[Jailer] = 0 =>
             \/ At("help") \cup At("version") # {}
             \/ \E k \in At("exec") : trace[k].ok
       /\ (\E k \in DOMAIN trace : ~trace[k].ok /\ trace[k].op # "mknod_urandom")
             => status[Jailer] > 0

\* C10 amended: without new_pid_ns the jailer ends with status 0 only on
\* --help/--version, and any failing step, the exec included, gives a non-zero
\* status.  With new_pid_ns the parent exits 0 once the clone has succeeded and
\* the PID file is written, whether or not the exec in the child succeeds; a
\* failure of any step of the parent gives a non-zero status.
C10_ExitStatus ==
    /\ status[Jailer] = 0 =>
          \/ At("help") \cup At("version") # {}
          \/ /\ env.new_pid_ns
             /\ \E k \in At("clone") : trace[k].ok
             /\ \E k \in At("save_exec_file_pid") : trace[k].ok
    /\ pc[Jailer] = "execed" =>
          ~env.new_pid_ns /\ \E k \in At("exec") : trace[k].ok /\ trace[k].proc = Jailer
    /\ \A k \in DOMAIN trace :
          /\ trace[k].proc = Jailer /\ ~trace[k].ok /\ trace[k].op # "mknod_urandom"
          /\ pc[Jailer] = "exited"
          => status[Jailer] \in Nat \ {0}
    /\ \A k \in At("parse_error") : pc[Jailer] = "exited" /\ status[Jailer] = 1

\* C10 witness: the parent exited with status 0 and the exec failed in the child
C10_Witness ==
    /\ status[Jailer] = 0
    /\ \E k \in At("exec") : ~trace[k].ok /\ trace[k].proc = Child
    /\ pc[Child] = "exited" /\ status[Child] = 101

\* C11: whenever the target is exec'ed, the program is /<exec basename> below
\* the jail root, its uid and gid are the parsed --uid and --gid, its stdio is
\* that of the exec'ing process, and its argument vector is --id id
\* --start-time-us t --start-time-cpu-us c --parent-cpu-time-us j followed by
\* the extra arguments in their order; with new_pid_ns c is 0 and j is the CPU
\* time the jailer had used just before clone, without it c is the start CPU
\* time given to Env::new and j is 0.
C11_ExecImage ==
    \A p \in Procs :
       IF pc[p] # "execed" THEN image[p] = NoImage
       ELSE /\ image[p].program = <<"firecracker">>
            /\ root[p] = NewChrootDir
            /\ fs[root[p] \o image[p].program].kind = "file"
            /\ image[p].uid = 1001 /\ image[p].gid = 1002
            /\ image[p].stdin = stdio[p][STDIN_FILENO]
            /\ image[p].stdout = stdio[p][STDOUT_FILENO]
            /\ image[p].stderr = stdio[p][STDERR_FILENO]
            /\ Len(image[p].argv) = 10
            /\ SubSeq(image[p].argv, 1, 5) =
                  <<"--id", "vm0", "--start-time-us", "1000", "--start-time-cpu-us">>
            /\ image[p].argv[7] = "--parent-cpu-time-us"
            /\ SubSeq(image[p].argv, 9, 10) = <<"--api-sock", "/run/fc.sock">>
            /\ IF env.new_pid_ns
               THEN /\ p = Child
                    /\ image[p].argv[6] = "0"
                    /\ \E k \in At("clone") :
                          /\ trace[k].arg - 7 \in 0..9
                          /\ image[p].argv[8] = Digit(trace[k].arg - 7)
               ELSE /\ p = Jailer
                    /\ image[p].argv[6] = "7"
                    /\ image[p].argv[8] = "0"

\* C11 witness: the child of a new_pid_ns run is the target, and the jailer
\* had used CPU time before the clone
C11_Witness ==
    /\ env.new_pid_ns /\ pc[Child] = "execed"
    /\ image[Child].argv[8] # "0"

\* The host's /dev/null: the character device (1, 3)
HostDevNull == <<"dev", "null">>

\* The positions of Env::run between the chroot and the daemonization block
JailedBeforeDaemonize ==
    {"folders", "mknod_tun", "mknod_kvm", "mknod_urandom", "macvtap_mknod", "setsid",
     "dup2"}

\* C12: Env::run opens /dev/null if and only if daemonize is set; it opens it
\* once, after the netns join and the resolution of every MACVTAP and before
\* chroot, so the descriptor is one of the host's /dev/null, and it is still
\* held after chroot, until the daemonization block is over.
C12_DevNullBeforeChroot ==
    /\ Cardinality(At("open_dev_null")) <= 1
    /\ ~env.daemonize => At("open_dev_null") = {} /\ "dev_null" \notin fds[Jailer]
    /\ \A k \in At("open_dev_null") :
          /\ env.daemonize
          /\ \A c \in At("chroot") : k < c
          /\ env.netns => OkCount(Upto(k), "mount_sysfs") = 1
          /\ OkCount(Upto(k), "by_name") = env.nmacvtaps
          /\ \A i \in (k + 1)..Len(trace) : trace[i].op \notin PreChrootOps
          /\ trace[k].path = HostDevNull
          /\ trace[k].ok =>
                fs[trace[k].path].kind = "chr" /\ fs[trace[k].path].data = <<1, 3>>
    /\ \A c \in At("chroot") :
          env.daemonize =>
             /\ \E k \in At("open_dev_null") : k < c /\ trace[k].ok
             /\ pc[Jailer] \in JailedBeforeDaemonize => "dev_null" \in fds[Jailer]

\* C12 witness: a daemonizing run with a netns and MACVTAPs is inside the jail
\* and holds the descriptor
C12_Witness ==
    /\ env.daemonize /\ env.netns /\ env.nmacvtaps >= 1
    /\ \E c \in At("chroot") : trace[c].ok
    /\ pc[Jailer] = "mknod_tun" /\ "dev_null" \in fds[Jailer]

\* The history t holds every mknod of the run, the MACVTAP nodes included
AllMknodsDone(t) ==
    /\ OkCount(t, "mknod_tun") = 1 /\ OkCount(t, "mknod_kvm") = 1
    /\ Cardinality({k \in DOMAIN t : t[k].op = "mknod_urandom"}) = 1
    /\ OkCount(t, "macvtap_mknod") = env.nmacvtaps

\* Descriptors 0, 1 and 2 of a process all refer to what tag names
AllStdio(p, tag) ==
    \A fd \in {STDIN_FILENO, STDOUT_FILENO, STDERR_FILENO} : stdio[p][fd] = tag

\* C13: with daemonize, setsid is called after every mknod (the MACVTAP nodes
\* included) and the dup2 calls follow it, onto 0, 1, 2 in this order; when
\* the run reaches clone or exec all three refer to /dev/null, and so do those
\* of the exec'ed target; a failed setsid is followed by no dup2; without
\* daemonize neither is called and descriptors 0, 1, 2 are unchanged.
C13_Daemonize ==
    /\ Cardinality(At("setsid")) <= 1
    /\ \A k \in At("setsid") :
          /\ env.daemonize /\ AllMknodsDone(Upto(k))
          /\ \A i \in (k + 1)..Len(trace) :
                trace[i].op \notin {"mknod_tun", "mknod_kvm", "mknod_urandom", "macvtap_mknod"}
          /\ ~trace[k].ok => At("dup2") = {}
    /\ LET d == SelectSeq(trace, LAMBDA e : e.op = "dup2")
       IN  /\ IsPrefix([i \in DOMAIN d |-> d[i].arg], <<0, 1, 2>>)
           /\ \A i \in DOMAIN d : i < Len(d) => d[i].ok
    /\ \A k \in At("dup2") : \E j \in At("setsid") : j < k /\ trace[j].ok
    /\ \A fd \in {0, 1, 2} :
          stdio[Jailer][fd] =
             IF \E k \in At("dup2") : trace[k].arg = fd /\ trace[k].ok
             THEN "dev_null" ELSE "inherited"
    /\ ~env.daemonize =>
          /\ At("setsid") \cup At("dup2") = {}
          /\ \A p \in Procs : AllStdio(p, "inherited")
    /\ \A k \in At("clone") \cup At("exec") :
          env.daemonize =>
             /\ OkCount(Upto(k), "setsid") = 1 /\ OkCount(Upto(k), "dup2") = 3
             /\ AllStdio(trace[k].proc, "dev_null")
             /\ pc[Child] # "none" => AllStdio(Child, "dev_null")
    /\ \A p \in Procs :
          pc[p] = "execed" /\ env.daemonize =>
             image[p].stdin = "dev_null" /\ image[p].stdout = "dev_null"
             /\ image[p].stderr = "dev_null"

\* C13 witness: a daemonizing run with MACVTAPs has exec'ed the target in the
\* cloned child
C13_Witness ==
    /\ env.daemonize /\ env.new_pid_ns /\ env.nmacvtaps >= 2
    /\ pc[Child] = "execed" /\ image[Child].stdout = "dev_null"

\* The operations of main before Env::run
MainOps == {"sanitize_process", "parse", "parse_error", "help", "version", "Env::new",
            "create_dir_all", "panic"}

\* C16: main's first action is sanitize_process, before the command line is
\* parsed; --help and --version exit with status 0 and a parse error with
\* status 1, with no plan constructed, no directory created and no jail
\* operation; the chroot directory tree is created right after Env::new
\* succeeded, and before any step of Env::run.
C16_MainOrder ==
    /\ \A k \in At("sanitize_process") : k = 1
    /\ Len(trace) >= 1 => trace[1].op = "sanitize_process"
    /\ \A k \in At("parse") \cup At("parse_error") \cup At("help") \cup At("version") : k = 2
    /\ \A k \in At("help") \cup At("version") \cup At("parse_error") :
          /\ Len(trace) = 2
          /\ pc[Jailer] = "exited" /\ pc[Child] = "none"
          /\ status[Jailer] = IF trace[k].op = "parse_error" THEN 1 ELSE 0
          /\ fs \in {HostFs, ForeignJailFs, RanBeforeFs(env.uid, env.gid)}
          /\ root[Jailer] = <<>>
    /\ \A k \in At("Env::new") : k = 3 /\ trace[2].op = "parse"
    /\ \A k \in At("create_dir_all") :
          k = 4 /\ trace[3].op = "Env::new" /\ trace[3].ok
    /\ \A i \in DOMAIN trace :
          trace[i].op \notin MainOps =>
             /\ i > 4
             /\ trace[4].op = "create_dir_all" /\ trace[4].ok
             /\ Exists(fs, NewChrootDir)

\* C16 witness: the run was started with --version and has exited
C16_Witness ==
    /\ At("version") # {} /\ pc[Jailer] = "exited" /\ status[Jailer] = 0

\* C14 as stated: after sanitize_process has returned, no descriptor above 2
\* that was open when it was called is still open, and 0, 1 and 2 are as they
\* were, for every set of inherited descriptors.
C14_Original ==
    san_pc = "done" =>
       /\ {fd \in open_fds.now : fd > STDERR_FILENO} = {}
       /\ \A fd \in 0..STDERR_FILENO : fd \in open_fds.now <=> fd \in open_fds.at_start

\* C15 as stated: clean_env_vars returns normally and leaves the environment
\* empty, whatever the names and values of the inherited variables.
C15_Original ==
    san_pc \notin {"read_dir", "next", "drop", "clean_env_vars"} =>
       san_pc = "done" /\ environ = <<>>

\* What validate_exec_file is to answer for each --exec-file of the model
ExpectedExec ==
    (<<"usr", "bin", "firecracker">> :> "ok")
    @@ (<<"usr", "bin", "my-firecracker2">> :> "ok")
    @@ (<<"opt", "fc">> :> "ok")
    @@ (<<"usr", "bin", "firecracke">> :> "ExecFileName")
    @@ (<<"opt", "firecracker">> :> "ExecFileName")
    @@ (<<"usr", "bin">> :> "NotAFile")
    @@ (<<"opt", "gone">> :> "Canonicalize")

\* The basename of the canonical path of each accepted --exec-file
ExpectedName ==
    (<<"usr", "bin", "firecracker">> :> "firecracker")
    @@ (<<"usr", "bin", "my-firecracker2">> :> "my-firecracker2")
    @@ (<<"opt", "fc">> :> "firecracker")

\* Env::new has returned, and its checks before the exec file passed
ExecFileReached == result.err # "pending" /\ args.id_valid

ChrootBaseReached == ExecFileReached /\ ExpectedExec[args.exec_file] = "ok"

ForbiddenComponent(path) ==
    \/ Len(path) > 0 /\ path[1] = "/"
    \/ \E i \in DOMAIN Split(path, "/") : Split(path, "/")[i] \in {<<".">>, <<"..">>}

\* Env::new has returned, and its checks before the parent cgroup passed
ParentCgroupReached ==
    /\ ChrootBaseReached
    /\ args.chroot_base \in {<<"srv", "jailer">>, <<"opt", "jails">>}
    /\ args.uid = "1001"

\* Env::new has returned, and its checks before the --cgroup arguments passed
CgroupArgsReached ==
    /\ ParentCgroupReached
    /\ ~ForbiddenComponent(args.parent_cgroup)
    /\ args.cgroup_ver = "1" /\ args.builder_ok
    /\ Len(args.cgroups) >= 1

\* The position of the first '=' of a string that has one
FirstEquals(cg) ==
    CHOOSE i \in DOMAIN cg : cg[i] = "=" /\ \A j \in 1..(i - 1) : cg[j] # "="

\* C19 as stated: a --parent-cgroup path with a ".", ".." or root component at
\* any position fails with CgroupInvalidParentPath (with or without a --cgroup
\* argument), and a --cgroup file name with one fails with CgroupInvalidFile.
C19_Original ==
    /\ ParentCgroupReached /\ ForbiddenComponent(args.parent_cgroup) =>
          result.err = "CgroupInvalidParentPath"
    /\ CgroupArgsReached =>
          LET cg == args.cgroups[1]
          IN  CgroupFormatOk(cg) /\ ForbiddenComponent(SubSeq(cg, 1, FirstEquals(cg) - 1))
                 => result.err = "CgroupInvalidFile"

\* <file>=<value>, split at the first '=', with both halves non-empty
WellFormedCgroup(cg) ==
    /\ \E i \in DOMAIN cg : cg[i] = "="
    /\ FirstEquals(cg) > 1 /\ FirstEquals(cg) < Len(cg)

\* C20 as stated: a --cgroup value is accepted only in the form
\* <file>=<value>, split once at the first '=', both halves non-empty; any
\* other value fails with CgroupFormat, and the remainder after the first '='
\* is the value, verbatim.
C20_Original ==
    CgroupArgsReached =>
       LET cg == args.cgroups[1]
           file == SubSeq(cg, 1, FirstEquals(cg) - 1)
           value == SubSeq(cg, FirstEquals(cg) + 1, Len(cg))
       IN  /\ ~WellFormedCgroup(cg) => result.err = "CgroupFormat"
           /\ result.ok => WellFormedCgroup(cg)
           /\ WellFormedCgroup(cg) =>
                 /\ result.err # "CgroupFormat"
                 /\ result.ok => result.plan.cgroups[1] = [file |-> file, value |-> value]

\* C21 as stated: every plan Env::new constructs has cgroup-version 1 or 2;
\* with any other --cgroup-version Env::new fails, whether or not a --cgroup
\* argument is given.
C21_Original ==
    /\ result.ok => result.plan.cgroup_ver \in {1, 2}
    /\ result.err # "pending" /\ args.cgroup_ver \notin {"1", "2"} => ~result.ok

\* What each --resource-limit value of the model is: whether it has a '=',
\* its name and value and whether they are valid, the error the parsing of it
\* is to end with (kind "": none), and the limit and number it is to set
LimitCases ==
    (<<>> :>
        [has_eq |-> FALSE, name |-> <<>>, name_ok |-> FALSE, value |-> <<>>, value_ok |-> FALSE,
         kind |-> "ResLimitFormat", what |-> <<>>, why |-> "", field |-> "", number |-> <<>>])
    @@ (<<"f", "o", "o">> :>
        [has_eq |-> FALSE, name |-> <<>>, name_ok |-> FALSE, value |-> <<>>, value_ok |-> FALSE,
         kind |-> "ResLimitFormat", what |-> <<"f", "o", "o">>, why |-> "", field |-> "", number |-> <<>>])
    @@ (<<"f", "o", "o", "=", "2">> :>
        [has_eq |-> TRUE, name |-> <<"f", "o", "o">>, name_ok |-> FALSE, value |-> <<"2">>, value_ok |-> TRUE,
         kind |-> "ResLimitArgument", what |-> <<"f", "o", "o">>, why |-> "", field |-> "", number |-> <<>>])
    @@ (<<"=", "2">> :>
        [has_eq |-> TRUE, name |-> <<>>, name_ok |-> FALSE, value |-> <<"2">>, value_ok |-> TRUE,
         kind |-> "ResLimitArgument", what |-> <<>>, why |-> "", field |-> "", number |-> <<>>])
    @@ (<<"f", "s", "i", "z", "e", "=", "f", "o", "o">> :>
        [has_eq |-> TRUE, name |-> <<"f", "s", "i", "z", "e">>, name_ok |-> TRUE, value |-> <<"f", "o", "o">>, value_ok |-> FALSE,
         kind |-> "ResLimitValue", what |-> <<"f", "o", "o">>, why |-> "InvalidDigit", field |-> "", number |-> <<>>])
    @@ (<<"f", "s", "i", "z", "e", "=", "2", ".", "3">> :>
        [has_eq |-> TRUE, name |-> <<"f", "s", "i", "z", "e">>, name_ok |-> TRUE, value |-> <<"2", ".", "3">>, value_ok |-> FALSE,
         kind |-> "ResLimitValue", what |-> <<"2", ".", "3">>, why |-> "InvalidDigit", field |-> "", number |-> <<>>])
    @@ (<<"f", "s", "i", "z", "e", "=">> :>
        [has_eq |-> TRUE, name |-> <<"f", "s", "i", "z", "e">>, name_ok |-> TRUE, value |-> <<>>, value_ok |-> FALSE,
         kind |-> "ResLimitValue", what |-> <<>>, why |-> "Empty", field |-> "", number |-> <<>>])
    @@ (<<"f", "o", "o", "=", "b", "a", "r">> :>
        [has_eq |-> TRUE, name |-> <<"f", "o", "o">>, name_ok |-> FALSE, value |-> <<"b", "a", "r">>, value_ok |-> FALSE,
         kind |-> "ResLimitValue", what |-> <<"b", "a", "r">>, why |-> "InvalidDigit", field |-> "", number |-> <<>>])
    @@ (<<"f", "s", "i", "z", "e", "=", "4", "0", "9", "8">> :>
        [has_eq |-> TRUE, name |-> <<"f", "s", "i", "z", "e">>, name_ok |-> TRUE, value |-> <<"4", "0", "9", "8">>, value_ok |-> TRUE,
         kind |-> "", what |-> <<>>, why |-> "", field |-> "file_size", number |-> <<"4", "0", "9", "8">>])
    @@ (<<"n", "o", "-", "f", "i", "l", "e", "=", "1", "0", "2", "4">> :>
        [has_eq |-> TRUE, name |-> <<"n", "o", "-", "f", "i", "l", "e">>, name_ok |-> TRUE, value |-> <<"1", "0", "2", "4">>, value_ok |-> TRUE,
         kind |-> "", what |-> <<>>, why |-> "", field |-> "no_file", number |-> <<"1", "0", "2", "4">>])
    @@ (<<"f", "s", "i", "z", "e", "=", "1", "=", "2">> :>
        [has_eq |-> TRUE, name |-> <<"f", "s", "i", "z", "e">>, name_ok |-> TRUE, value |-> <<"1", "=", "2">>, value_ok |-> FALSE,
         kind |-> "ResLimitValue", what |-> <<"1", "=", "2">>, why |-> "InvalidDigit", field |-> "", number |-> <<>>])
    @@ (<<"n", "o", "-", "f", "i", "l", "e", "=", "+", "5">> :>
        [has_eq |-> TRUE, name |-> <<"n", "o", "-", "f", "i", "l", "e">>, name_ok |-> TRUE, value |-> <<"+", "5">>, value_ok |-> TRUE,
         kind |-> "", what |-> <<>>, why |-> "", field |-> "no_file", number |-> <<"5">>])
    @@ (<<"f", "s", "i", "z", "e", "=", "0", "0", "7">> :>
        [has_eq |-> TRUE, name |-> <<"f", "s", "i", "z", "e">>, name_ok |-> TRUE, value |-> <<"0", "0", "7">>, value_ok |-> TRUE,
         kind |-> "", what |-> <<>>, why |-> "", field |-> "file_size", number |-> <<"7">>])
    @@ (<<"f", "s", "i", "z", "e", "=", "1", "8", "4", "4", "6", "7", "4", "4", "0", "7", "3", "7", "0", "9", "5", "5", "1", "6", "1", "5">> :>
        [has_eq |-> TRUE, name |-> <<"f", "s", "i", "z", "e">>, name_ok |-> TRUE, value |-> <<"1", "8", "4", "4", "6", "7", "4", "4", "0", "7", "3", "7", "0", "9", "5", "5", "1", "6", "1", "5">>, value_ok |-> TRUE,
         kind |-> "", what |-> <<>>, why |-> "", field |-> "file_size", number |-> <<"1", "8", "4", "4", "6", "7", "4", "4", "0", "7", "3", "7", "0", "9", "5", "5", "1", "6", "1", "5">>])
    @@ (<<"n", "o", "-", "f", "i", "l", "e", "=", "1", "8", "4", "4", "6", "7", "4", "4", "0", "7", "3", "7", "0", "9", "5", "5", "1", "6", "1", "6">> :>
        [has_eq |-> TRUE, name |-> <<"n", "o", "-", "f", "i", "l", "e">>, name_ok |-> TRUE, value |-> <<"1", "8", "4", "4", "6", "7", "4", "4", "0", "7", "3", "7", "0", "9", "5", "5", "1", "6", "1", "6">>, value_ok |-> FALSE,
         kind |-> "ResLimitValue", what |-> <<"1", "8", "4", "4", "6", "7", "4", "4", "0", "7", "3", "7", "0", "9", "5", "5", "1", "6", "1", "6">>, why |-> "PosOverflow", field |-> "", number |-> <<>>])

\* The first argument of the list that is not a valid name=value (0: none)
FirstBadLimit ==
    LET bad == {i \in DOMAIN limit_args : LimitCases[limit_args[i]].kind # ""}
    IN  IF bad = {} THEN 0 ELSE CHOOSE i \in bad : \A j \in bad : i <= j

\* The number the last of the first n arguments that sets this limit gives it
LastLimit(field, n) ==
    LET sets == {i \in 1..n : LimitCases[limit_args[i]].field = field}
    IN  IF sets = {} THEN <<>>
        ELSE LimitCases[limit_args[CHOOSE i \in sets : \A j \in sets : j <= i]].number

\* The limits the first n arguments set
LimitsAfter(n) == [file_size |-> LastLimit("file_size", n), no_file |-> LastLimit("no_file", n)]

\* C22 as stated: the first bad argument ends the parsing with an error that
\* names its defect: ResLimitFormat(arg) without '=', ResLimitArgument(name)
\* when the name is neither fsize nor no-file, ResLimitValue(value, ..) when
\* the value is no unsigned 64-bit integer.
C22_Original ==
    limit_result # LimitPending /\ FirstBadLimit # 0 =>
       LET case == LimitCases[limit_args[FirstBadLimit]]
       IN  /\ ~limit_result.ok
           /\ ~case.has_eq =>
                 limit_result.kind = "ResLimitFormat"
                 /\ limit_result.what = limit_args[FirstBadLimit]
           /\ case.has_eq /\ ~case.name_ok =>
                 limit_result.kind = "ResLimitArgument" /\ limit_result.what = case.name
           /\ case.has_eq /\ ~case.value_ok =>
                 limit_result.kind = "ResLimitValue" /\ limit_result.what = case.value

\* C22: the first bad argument ends the parsing, with the limits the arguments
\* before it set: ResLimitFormat(arg) without '='; else ResLimitValue(value,
\* parse error) when the value is no unsigned 64-bit integer, whatever the
\* name; else ResLimitArgument(name) when the name is neither fsize nor
\* no-file. A list of valid name=value arguments returns Ok and sets each
\* limit to the last value given for it.
C22_ParseResourceLimits ==
    limit_result # LimitPending =>
       IF FirstBadLimit = 0
       THEN limit_result = LimitOk /\ resource_limits = LimitsAfter(Len(limit_args))
       ELSE LET case == LimitCases[limit_args[FirstBadLimit]]
            IN  /\ ~limit_result.ok
                /\ limit_result.kind =
                      (IF ~case.has_eq THEN "ResLimitFormat"
                       ELSE IF ~case.value_ok THEN "ResLimitValue"
                       ELSE "ResLimitArgument")
                /\ limit_result.what =
                      (IF ~case.has_eq THEN limit_args[FirstBadLimit]
                       ELSE IF ~case.value_ok THEN case.value
                       ELSE case.name)
                /\ limit_result.kind = "ResLimitValue" => limit_result.why = case.why
                /\ limit_result.kind = case.kind
                /\ resource_limits = LimitsAfter(FirstBadLimit - 1)

\* C22 witness: after an argument that set a limit, an argument with an
\* unknown name and a bad value ended the parsing
C22_Witness ==
    /\ limit_result.kind = "ResLimitValue" /\ limit_next = 2
    /\ ~LimitCases[limit_args[2]].name_ok
    /\ resource_limits.file_size = <<"4", "0", "9", "8">>

\* The bytes of "tap<k>"
TapNumbered(k) == <<"t", "a", "p", Digit(k)>>

\* The last call was open_named
OpenNamedCalled == tap_call.op = "open_named"

\* open_named took the MACVTAP path: get_device_node answered for the name
OnMacvtapPath == tap_call.if_name \in DOMAIN MacvtapNodes

\* C23 as stated: open_named rejects every name of 16 bytes or more with
\* InvalidIfname and with no other error, on the TAP and on the MACVTAP path;
\* a name of 15 bytes is not rejected for its length; on the TAP path the
\* rejection comes before /dev/net/tun is opened.
C23_Original ==
    OpenNamedCalled =>
       /\ Len(tap_call.if_name) >= 16 =>
             /\ tap_call.result = TapErr("InvalidIfname", "")
             /\ ~OnMacvtapPath => tap_call.syscalls = <<>>
       /\ Len(tap_call.if_name) = 15 => tap_call.result.err # "InvalidIfname"

\* The name has no zero byte in it and no "%d"
PlainName(name) == (\A i \in DOMAIN name : name[i] # NUL) /\ FormatAt(name) = 0

\* C24 as stated: for every non-empty name open_named accepts, the stored
\* if_name is 16 bytes, the bytes of the name and then zero bytes only, and
\* if_name_as_str() gives the name back.
C24_Original ==
    OpenNamedCalled /\ tap_call.result.ok /\ tap_call.if_name # <<>> =>
       LET stored == tap_call.result.tap.if_name
           n == Len(tap_call.if_name)
       IN  /\ Len(stored) = 16
           /\ SubSeq(stored, 1, n) = tap_call.if_name
           /\ \A i \in (n + 1)..16 : stored[i] = NUL
           /\ IfNameAsStr(stored) = tap_call.if_name

\* C24: the if_name of every Tap is 16 bytes and ends with a zero byte. For
\* a non-empty accepted name with no zero byte and no "%d" in it, it is the
\* bytes of the name and then zero bytes only, and if_name_as_str() gives the
\* name back. A name with "%d" is stored with the number the kernel put for
\* it, and of a name with a zero byte if_name_as_str() gives what is before it.
C24_IfName ==
    /\ \A tap \in taps : Len(tap.if_name) = 16 /\ tap.if_name[16] = NUL
    /\ OpenNamedCalled /\ tap_call.result.ok /\ tap_call.if_name # <<>> =>
          LET stored == tap_call.result.tap.if_name
              n == Len(tap_call.if_name)
          IN  /\ PlainName(tap_call.if_name) =>
                    /\ n < 16
                    /\ SubSeq(stored, 1, n) = tap_call.if_name
                    /\ \A i \in (n + 1)..16 : stored[i] = NUL
                    /\ IfNameAsStr(stored) = tap_call.if_name
              /\ ~OnMacvtapPath /\ FormatAt(tap_call.if_name) # 0 =>
                    /\ IfNameAsStr(stored) \in
                          {Formatted(tap_call.if_name, k) : k \in 0..9}
                    /\ IfNameAsStr(stored) \notin DOMAIN tap_call.ifaces_before
              /\ ~PlainName(tap_call.if_name) /\ FormatAt(tap_call.if_name) = 0 =>
                    IfNameAsStr(stored) = UntilNul(tap_call.if_name)

\* C24 witness: a Tap was opened as "vm%d" and is named "vm0"
C24_Witness ==
    /\ OpenNamedCalled /\ tap_call.result.ok
    /\ tap_call.if_name = <<"v", "m", "%", "d">>
    /\ IfNameAsStr(tap_call.result.tap.if_name) = <<"v", "m", "0">>

\* C25 as stated: after a successful open_named(""), whatever was opened and
\* dropped before, the stored name is "tap0" and twelve zero bytes, and
\* if_name_as_str() is "tap0".
C25_Original ==
    OpenNamedCalled /\ tap_call.result.ok /\ tap_call.if_name = <<>> =>
       /\ tap_call.result.tap.if_name = TapNumbered(0) \o Nuls(12)
       /\ IfNameAsStr(tap_call.result.tap.if_name) = TapNumbered(0)

\* The least k for which the host had no interface tap<k> before the call
FirstFreeTap ==
    CHOOSE k \in 0..9 :
       /\ TapNumbered(k) \notin DOMAIN tap_call.ifaces_before
       /\ \A j \in 0..(k - 1) : TapNumbered(j) \in DOMAIN tap_call.ifaces_before

\* C25: after a successful open_named(""), the stored name is "tap<k>" and
\* twelve zero bytes, and if_name_as_str() is "tap<k>", for the least k for
\* which no interface tap<k> was there at the call: "tap0" only when no
\* interface tap0 is there, open or not.
C25_EmptyName ==
    OpenNamedCalled /\ tap_call.result.ok /\ tap_call.if_name = <<>> =>
       /\ tap_call.result.tap.if_name = TapNumbered(FirstFreeTap) \o Nuls(12)
       /\ IfNameAsStr(tap_call.result.tap.if_name) = TapNumbered(FirstFreeTap)

\* C25 witness: open_named("") gave "tap1" while a Tap named "tap0" was alive
C25_Witness ==
    /\ OpenNamedCalled /\ tap_call.result.ok /\ tap_call.if_name = <<>>
    /\ IfNameAsStr(tap_call.result.tap.if_name) = TapNumbered(1)
    /\ \E tap \in tap_call.taps_before : IfNameAsStr(tap.if_name) = TapNumbered(0)

\* C26 as stated: no two live Taps have the same interface name, and
\* open_named(X) fails while a Tap is alive that open_named(X) gave, or that
\* is named X.
C26_Original ==
    /\ \A t1, t2 \in taps :
          t1 # t2 => IfNameAsStr(t1.if_name) # IfNameAsStr(t2.if_name)
    /\ OpenNamedCalled
       /\ (\E tap \in tap_call.taps_before :
              tap_call.files_before[tap.tap_file].opened_as = tap_call.if_name)
          => ~tap_call.result.ok
    /\ OpenNamedCalled
       /\ (\E tap \in tap_call.taps_before : IfNameAsStr(tap.if_name) = tap_call.if_name)
          => ~tap_call.result.ok

\* The live Taps, of a descriptor table, that hold /dev/net/tun
TunTaps(handles, files) == {tap \in handles : files[tap.tap_file].path = DevNetTun}

\* C26: opening is exclusive for the TAP interfaces, by the kernel: no two
\* live Taps on /dev/net/tun have the same interface name, and while one for
\* the interface X is alive, open_named(X) on the TAP path fails (with
\* IoctlError, EBUSY, when it gets to TUNSETIFF). A MACVTAP node can be
\* opened again while a Tap holds it.
C26_ExclusiveTap ==
    /\ \A t1, t2 \in TunTaps(taps, tap_files) :
          t1 # t2 => IfNameAsStr(t1.if_name) # IfNameAsStr(t2.if_name)
    /\ OpenNamedCalled /\ ~OnMacvtapPath
       /\ (\E tap \in TunTaps(tap_call.taps_before, tap_call.files_before) :
              IfNameAsStr(tap.if_name) = tap_call.if_name)
          => /\ ~tap_call.result.ok
             /\ tap_call.result.err \in {"OpenTun", "IoctlError"}
             /\ tap_call.result.err = "IoctlError" => tap_call.result.errno = "EBUSY"

\* C26 witness: the second open_named("exclusivetap") failed at TUNSETIFF
C26_Witness ==
    /\ OpenNamedCalled /\ tap_call.result = TapErr("IoctlError", "EBUSY")
    /\ tap_call.if_name = <<"e", "x", "c", "l", "u", "s", "i", "v", "e", "t", "a", "p">>
    /\ \E tap \in taps : IfNameAsStr(tap.if_name) = tap_call.if_name

\* The descriptors a call opened and did not close
LeftOpen(syscalls) ==
    {syscalls[i].fd : i \in {j \in DOMAIN syscalls : syscalls[j].op = "open" /\ syscalls[j].ok}}
       \ {syscalls[i].fd : i \in {j \in DOMAIN syscalls : syscalls[j].op = "close"}}

\* C27: a failed open_named returns no Tap and leaves nothing behind: every
\* descriptor it opened is closed again, the descriptors, the live Taps and
\* the interfaces are what they were before the call.
C27_NoPartialState ==
    OpenNamedCalled /\ ~tap_call.result.ok =>
       /\ tap_call.result.tap = NoTap
       /\ LeftOpen(tap_call.syscalls) = {}
       /\ tap_files = tap_call.files_before
       /\ taps = tap_call.taps_before
       /\ tap_ifaces = tap_call.ifaces_before

\* C27 witness: TUNSETIFF failed after /dev/net/tun was opened
C27_Witness ==
    /\ OpenNamedCalled /\ tap_call.result.err = "IoctlError"
    /\ \E i \in DOMAIN tap_call.syscalls :
          tap_call.syscalls[i].op = "open" /\ tap_call.syscalls[i].ok

\* C28: the MACVTAP lookup alone chooses the device. With a node for the
\* name, that node is opened (read+write, non-blocking, close-on-exec) and
\* nothing else, TUNSETIFF is not issued, a node that is no character device
\* fails with InvalidTapDevType, and a failure is returned as it is. Without a
\* node, nothing but /dev/net/tun is opened and TUNSETIFF has the flags
\* TAP | NO_PI | VNET_HDR.
C28_DeviceChoice ==
    OpenNamedCalled =>
       LET calls == tap_call.syscalls
           opens == {i \in DOMAIN calls : calls[i].op = "open"}
           ioctls == {i \in DOMAIN calls : calls[i].op = "TUNSETIFF"}
       IN  /\ \A i \in opens :
                /\ calls[i].flags = {"O_RDWR", "O_NONBLOCK", "O_CLOEXEC"}
                /\ calls[i].path = (IF OnMacvtapPath THEN MacvtapNodes[tap_call.if_name]
                                    ELSE <<"dev", "net", "tun">>)
           /\ Cardinality(opens) <= 1
           /\ OnMacvtapPath =>
                /\ ioctls = {}
                /\ opens = {1}
                /\ DevNodes[MacvtapNodes[tap_call.if_name]] # "char" =>
                      tap_call.result.err \in {"OpenTapDev", "StatTapDev", "InvalidTapDevType"}
                /\ tap_call.result.err \in
                      {"", "OpenTapDev", "StatTapDev", "InvalidTapDevType", "InvalidIfname"}
                /\ tap_call.result.ok => tap_files[tap_call.result.tap.tap_file].path =
                                            MacvtapNodes[tap_call.if_name]
           /\ ~OnMacvtapPath =>
                /\ \A i \in ioctls :
                      /\ calls[i].flags = {"IFF_TAP", "IFF_NO_PI", "IFF_VNET_HDR"}
                      /\ i = 2 /\ calls[1].op = "open" /\ calls[1].ok
                      /\ calls[i].fd = calls[1].fd
                /\ tap_call.result.ok => ioctls = {2}

\* C28 witness: a MACVTAP node could not be opened, and the call ended there
C28_Witness ==
    /\ OpenNamedCalled /\ OnMacvtapPath
    /\ tap_call.result.err = "OpenTapDev" /\ Len(tap_call.syscalls) = 1

\* The folder is a directory with mode 0o700 that belongs to (uid, gid)
JailedFolder(folder) ==
    LET host == NewChrootDir \o folder
    IN  /\ Exists(fs, host)
        /\ fs[host].kind = "dir" /\ fs[host].mode = 448
        /\ fs[host].uid = env.uid /\ fs[host].gid = env.gid

\* C30: a successful setup_jailed_folder(p) leaves p a directory with mode
\* 0o700 and owner (uid, gid), whether p was not there before or was there
\* with another mode or owner; after the four calls of Env::run each of /,
\* /dev, /dev/net and /run inside the jail is so.
C30_JailedFolders ==
    /\ \A k \in At("setup_jailed_folder") : trace[k].ok => JailedFolder(trace[k].path)
    /\ OkCount(trace, "setup_jailed_folder") = 4 =>
          /\ JailedFolder(<<>>) /\ JailedFolder(<<"dev">>)
          /\ JailedFolder(<<"dev", "net">>) /\ JailedFolder(<<"run">>)

\* C30 witness: the four folders are set up in a jail where /dev and /run
\* were there before, with other modes and owners
C30_Witness ==
    /\ OkCount(trace, "setup_jailed_folder") = 4
    /\ Exists(fs, NewChrootDir \o <<"run", "old.sock">>)
    /\ JailedFolder(<<"run">>)

\* C29 as stated: a successful mknod_and_own_dev(path, M, m) leaves at path a
\* character device with major M, minor m, mode S_IFCHR | 0o600 and owner
\* (uid, gid); a second call with the same path fails with "File exists" and
\* leaves the node as it is; a path buffer that is not NUL-terminated fails
\* before any node is created.
C29_Original ==
    dev_call.op = "mknod_and_own_dev" =>
       LET buf == dev_call.dev_path_str
           terminated == Len(buf) > 0 /\ buf[Len(buf)] = NUL
           host == NewChrootDir \o SelectSeq(buf, LAMBDA c : c \notin {"/", NUL})
       IN  /\ dev_call.result.ok =>
                /\ host \in DOMAIN dev_fs
                /\ dev_fs[host] = [kind |-> "chr", uid |-> env.uid, gid |-> env.gid,
                                   mode |-> 384, data |-> dev_call.numbers]
           /\ terminated /\ (\A i \in 1..(Len(buf) - 1) : buf[i] # NUL)
              /\ host \in DOMAIN dev_call.fs_before
              /\ dev_call.fs_before[host].kind = "chr" =>
                /\ dev_call.result = [ok |-> FALSE, err |-> "MknodDev", errno |-> "EEXIST"]
                /\ dev_fs = dev_call.fs_before
           /\ ~terminated => ~dev_call.result.ok /\ dev_fs = dev_call.fs_before

\* C31 as stated: a successful copy_exec_to_chroot leaves at
\* chroot_dir/<exec basename> a file with the content and the permission
\* bits of the exec file, leaves the source file as it was, and returns the
\* exec basename.
C31_Original ==
    copy_call.op = "copy_exec_to_chroot" /\ copy_call.result.ok =>
       LET before == copy_call.fs_before
           src == copy_call.env_before.exec_file_path
           name == src[Len(src)]
           dst == Append(copy_call.env_before.chroot_dir, name)
       IN  /\ dst \in DOMAIN fs /\ fs[dst].kind = "file"
           /\ fs[dst].data = before[src].data
           /\ fs[dst].mode = before[src].mode
           /\ fs[src] = before[src]
           /\ copy_call.result.name = name

\* C36 as stated: when copy_exec_to_chroot returns, with success or with a
\* copy error, chroot_dir has the value it had before the call.
C36_Original ==
    copy_call.op = "copy_exec_to_chroot" =>
       env.chroot_dir = copy_call.env_before.chroot_dir

\* The path is valid Unicode: no byte outside a UTF-8 sequence, no UTF-8
\* sequence cut short
UnicodePath ==
    \A i \in DOMAIN cstr_path :
       /\ cstr_path[i] # "FF"
       /\ cstr_path[i] = "C3" => i < Len(cstr_path) /\ cstr_path[i + 1] = "A9"
       /\ cstr_path[i] = "A9" => i > 1 /\ cstr_path[i - 1] = "C3"
HasNul == \E i \in DOMAIN cstr_path : cstr_path[i] = NUL
ToCStringReturned == cstr_result # CStringPending

\* C32 as stated: to_cstring succeeds exactly when the path is valid Unicode
\* without a NUL byte and then converts back to the path; a path with a NUL
\* byte fails with CStringParsing and a non-Unicode path fails with
\* OsStringParsing.
C32_Original ==
    ToCStringReturned =>
       /\ cstr_result.ok <=> (UnicodePath /\ ~HasNul)
       /\ cstr_result.ok => CStrToPath(cstr_result.cstring) = <<cstr_path>>
       /\ HasNul => ~cstr_result.ok /\ cstr_result.err = "CStringParsing"
       /\ ~UnicodePath => ~cstr_result.ok /\ cstr_result.err = "OsStringParsing"

\* C32, amended: to_cstring succeeds exactly when the path is valid Unicode
\* without a NUL byte, and then converting the result back (CStr -> str ->
\* PathBuf) yields the path; a non-Unicode path fails with OsStringParsing,
\* with or without a NUL byte, a Unicode path with a NUL byte fails with
\* CStringParsing, and a failure yields no C string.
C32_ToCString ==
    ToCStringReturned =>
       /\ cstr_result.ok <=> (UnicodePath /\ ~HasNul)
       /\ cstr_result.ok => CStrToPath(cstr_result.cstring) = <<cstr_path>>
       /\ ~UnicodePath => ~cstr_result.ok /\ cstr_result.err = "OsStringParsing"
       /\ UnicodePath /\ HasNul => ~cstr_result.ok /\ cstr_result.err = "CStringParsing"
       /\ ~cstr_result.ok => cstr_result.cstring = <<>>
C32_Witness ==
    /\ ToCStringReturned /\ cstr_result.ok
    /\ cstr_path = <<"/", "C3", "A9">>
    /\ cstr_result.cstring = <<"/", "C3", "A9", NUL>>

\* C33 as stated: when the best-effort creation of /dev/urandom fails, the
\* warning is printed to stderr, and nothing is written to stdout for it.
C33_Original ==
    \A i \in DOMAIN trace :
       trace[i].op = "mknod_urandom" /\ ~trace[i].ok =>
          /\ i < Len(trace)
          /\ trace[i + 1].op = "print" /\ trace[i + 1].arg = 2
          /\ \A j \in DOMAIN trace : trace[j].op = "print" => trace[j].arg # 1

\* The join_netns calls performed so far, in the order they were made
NetnsCalls ==
    SelectSeq(trace, LAMBDA e : e.op \in {"netns_open", "setns", "netns_close", "unshare",
                                          "mount_slave", "umount2_sys", "mount_sysfs"})
OkBefore(op, k) == \E j \in 1..(k - 1) : trace[j].op = op /\ trace[j].ok

\* C34: join_netns opens the netns file, calls setns, closes the descriptor,
\* unshares the mount namespace, slaves the propagation of /, unmounts /sys
\* and mounts a fresh sysfs, in this order; the first failing call is the
\* last one and fails the run; /sys is unmounted or mounted only after a
\* successful setns, unshare and remount of /.
C34_JoinNetns ==
    LET order == <<"netns_open", "setns", "netns_close", "unshare", "mount_slave",
                   "umount2_sys", "mount_sysfs">>
    IN  /\ Len(NetnsCalls) <= Len(order)
        /\ \A i \in DOMAIN NetnsCalls :
              /\ NetnsCalls[i].op = order[i] /\ NetnsCalls[i].proc = "jailer"
              /\ i < Len(NetnsCalls) => NetnsCalls[i].ok
        /\ \A k \in DOMAIN trace :
              /\ trace[k].op \in {"umount2_sys", "mount_sysfs"} =>
                    /\ OkBefore("setns", k) /\ OkBefore("unshare", k)
                    /\ OkBefore("mount_slave", k)
              /\ trace[k].op \in Range(order) /\ ~trace[k].ok =>
                    /\ \A j \in (k + 1)..Len(trace) : trace[j].op = "panic"
                    /\ pc["jailer"] \in {"panic", "exited"}
        /\ ~env.netns => NetnsCalls = <<>>
\* C34 witnesses: a fresh sysfs was mounted and the target exec'ed
C34_Witness ==
    /\ \E k \in At("mount_sysfs") : trace[k].ok
    /\ \E k \in At("exec") : trace[k].ok

\* C35 as stated: whether setns succeeds or fails, the descriptor join_netns
\* opened on the netns file is no longer open when join_netns has returned.
C35_Original ==
    At("netns_open") # {} /\ pc["jailer"] # "join_netns" => "netns" \notin fds["jailer"]

\* C39: when the target is exec'ed, and when the child is cloned, the
\* descriptor of the netns file and the descriptor Env::run opened on
\* /dev/null are closed: the process holds no descriptor the pipeline opened
\* besides 0, 1 and 2.
C39_NoLeakedDescriptor ==
    /\ \A p \in {"jailer", "child"} :
          pc[p] \in {"final", "child_exec", "execed"} =>
             fds[p] \cap {"netns", "dev_null"} = {}
    /\ \A k \in At("clone") \cup At("exec") :
          /\ \A j \in At("netns_open") : trace[j].ok => j < k /\ OkBefore("netns_close", k)
          /\ \A j \in At("open_dev_null") : trace[j].ok => j < k /\ OkBefore("dup2", k)
\* C39 witness: a daemonized target in a joined netns and a new PID namespace
C39_Witness ==
    /\ pc["child"] = "execed" /\ env.netns /\ env.daemonize
    /\ \E k \in At("netns_open") : trace[k].ok
    /\ \E k \in At("open_dev_null") : trace[k].ok

\* The device nodes of the jail: what is below <chroot_dir>/dev and is not
\* a directory
JailDevNodes ==
    LET dev == <<"srv", "jailer", "firecracker", "vm0", "root", "dev">>
    IN  {path \in DOMAIN fs :
           /\ Len(path) > Len(dev) /\ SubSeq(path, 1, Len(dev)) = dev
           /\ fs[path].kind # "dir"}

\* C37 as stated: whenever Env::run reaches exec, every device node under
\* /dev of the jail is a character device with mode 0600 owned by (uid,
\* gid); in particular /dev/urandom is absent or owned by (uid, gid).
C37_Original ==
    (\E k \in At("exec") : trace[k].ok) =>
       \A path \in JailDevNodes :
          /\ fs[path].kind = "chr" /\ fs[path].mode = 384
          /\ fs[path].uid = env.uid /\ fs[path].gid = env.gid

\* The run is a second run in the jail of an earlier one: /dev/net/tun is
\* in the jail, owned by (uid, gid), although this run did not create it
SecondRun ==
    LET tun == <<"srv", "jailer", "firecracker", "vm0", "root", "dev", "net", "tun">>
    IN  /\ tun \in DOMAIN fs /\ fs[tun].uid = env.uid /\ fs[tun].gid = env.gid
        /\ \A k \in At("mknod_tun") : ~trace[k].ok

\* A second run gets no further than the mknod of /dev/net/tun, which it
\* reaches with the binary copied, the limits and cgroups applied, chrooted
SecondRunEnds ==
    SecondRun =>
       /\ At("exec") = {} /\ At("clone") = {}
       /\ At("mknod_kvm") = {} /\ At("mknod_urandom") = {}
       /\ pc["jailer"] \notin {"mknod_kvm", "mknod_urandom", "macvtap_mknod", "setsid",
                               "dup2", "final", "save_pid", "exit", "execed"}
       /\ \A k \in At("mknod_tun") :
             /\ \A j \in (k + 1)..Len(trace) : trace[j].op = "panic"
             /\ OkBefore("copy_exec", k) /\ OkBefore("limits", k) /\ OkBefore("chroot", k)
             /\ OkCount(Upto(k), "write_value") = env.ncgroups
             /\ OkCount(Upto(k), "attach_pid") = env.ncgroups
             /\ OkCount(Upto(k), "setup_jailed_folder") = 4
             /\ root["jailer"] = <<"srv", "jailer", "firecracker", "vm0", "root">>
             /\ fs[<<"srv", "jailer", "firecracker", "vm0", "root", "firecracker">>].data
                   = fs[env.exec_file_path].data
\* The mknod of a /dev/net/tun that is there: the call fails, nothing is
\* changed and the run is left
MknodTunExists ==
    LET tun == <<"srv", "jailer", "firecracker", "vm0", "root", "dev", "net", "tun">>
    IN  pc["jailer"] = "mknod_tun" /\ tun \in DOMAIN fs =>
           /\ pc'["jailer"] = "panic" /\ fs' = fs
           /\ trace'[Len(trace')].op = "mknod_tun" /\ ~trace'[Len(trace')].ok
\* C38: a second run with the same id, exec file and chroot base, after a
\* run that created the device nodes, never reaches clone or exec: when it
\* gets to the mknod of /dev/net/tun the call fails (the node exists) and
\* the run ends there with a panic, after it has overwritten the copied
\* binary, installed the limits, applied the cgroups and chrooted.
C38_NotReentrant == []SecondRunEnds /\ [][MknodTunExists]_vars
\* C38 witness: the second run applied two cgroups, chrooted, failed at the
\* mknod of /dev/net/tun and ended with the panic status
C38_Witness ==
    /\ SecondRun /\ At("mknod_tun") # {} /\ env.ncgroups = 2
    /\ pc["jailer"] = "exited" /\ status["jailer"] = 101

\* C40 as stated: readln_special removes the newline at the end of the file
\* content only if there is one: content ending in a newline is returned
\* without that newline, content not ending in a newline is returned
\* unchanged; readln_special after writeln_special(value) returns value.
C40_Original ==
    special_call.op = "readln_special" /\ special_call.result.ok =>
       LET content == special_call.file_before[1]
           line == special_call.result.line
           n == Len(content)
       IN  /\ n > 0 /\ content[n] = "\n" => line = SubSeq(content, 1, n - 1)
           /\ ~(n > 0 /\ content[n] = "\n") => line = content
           /\ special_call.written # <<>> => line = special_call.written[1]

====
